---- MODULE Spec2Model ----
(***************************************************************************)
(* SQL safety rewriter and warehouse query pipeline of                     *)
(* llm_autobahn_backend (context/doris_connector.py, app/api/v1/sql.py).   *)
(*                                                                         *)
(* A Python str holding SQL is modelled by the sequence of sqlparse        *)
(* tokens it lexes to; Text gives its characters.  A token is a record     *)
(* [ttype, value] as produced by sqlparse's lexer; ttype is the dotted     *)
(* name of the token type (Keyword.DML, Literal.String.Single, ...).       *)
(*                                                                         *)
(* Further down: the file-system manager and its adapters                  *)
(* (context/file_system) and the result materializer                      *)
(* (src/serializers/data_serializer.py).  There a Python str (JSON text,   *)
(* uri) is a sequence of lexemes and a Python value a record [t, s, l, n]. *)
(***************************************************************************)
EXTENDS Integers, Sequences, FiniteSets, TLC

\* ---------------------------------------------------------------- bounds
MaxNum == 3     \* integer literals written in the SQL are 1..MaxNum
MaxLimit == 2   \* requested limits are 0..MaxLimit
MaxCeil == 2    \* max_limit values are 1..MaxCeil
MaxStmts == 2   \* multi-statement inputs hold 2..MaxStmts statements
MaxReqs == 2    \* requests the endpoint serves concurrently

IntRange == MaxNum + MaxLimit + MaxCeil

\* execute_custom_sql(limit=1000) and add_limit_safe(max_limit=1000)
DefaultLimit == 1000
DefaultMaxLimit == 1000

\* the integers whose decimal numerals occur in the SQL texts
Numerals == 0..IntRange \cup {DefaultLimit, DefaultMaxLimit}

Min(a, b) == IF a < b THEN a ELSE b
Max(a, b) == IF a > b THEN a ELSE b

\* ---------------------------------------------------------------- tokens
Tok(tt, v) == [ttype |-> tt, value |-> v]

SELECT == Tok("Keyword.DML", "SELECT")
DELETE == Tok("Keyword.DML", "DELETE")
INSERT == Tok("Keyword.DML", "INSERT")
SHOW == Tok("Keyword", "SHOW")
FROM == Tok("Keyword", "FROM")
LIMIT == Tok("Keyword", "LIMIT")
limit_lc == Tok("Keyword", "limit")
NameT == Tok("Name", "t")
Placeholder == Tok("Name.Placeholder", "?")
WS == Tok("Text.Whitespace", " ")
NL == Tok("Text.Whitespace.Newline", "\n")
Semi == Tok("Punctuation", ";")
Comma == Tok("Punctuation", ",")
LParen == Tok("Punctuation", "(")
RParen == Tok("Punctuation", ")")
CommentTok == Tok("Comment.Multiline", "/*c*/")
CommentLimit == Tok("Comment.Multiline", "/*LIMIT*/")
LineComment == Tok("Comment.Single", "-- c")
StringLimit == Tok("Literal.String.Single", "'LIMIT'")
IntTok(n) == Tok("Literal.Number.Integer", ToString(n))

\* str.upper() on the token values the inputs use
Upper(v) ==
  CASE v = "limit" -> "LIMIT"
    [] v = "t" -> "T"
    [] v = "/*c*/" -> "/*C*/"
    [] OTHER -> v

\* value.strip() == "" : the value holds whitespace characters only
IsBlank(tok) == tok.value \in {" ", "\n"}

\* int(value.strip()) succeeds / its result.  ToString is str() of an int;
\* the parse inverts it on the decimal numerals in range.
IsInt(v) == \E n \in Numerals : ToString(n) = v
IntOf(v) == CHOOSE n \in Numerals : ToString(n) = v

\* the characters of a token sequence
RECURSIVE Text(_)
Text(toks) == IF toks = <<>> THEN "" ELSE Head(toks).value \o Text(Tail(toks))

\* sep.join(strs)
RECURSIVE Join(_, _)
Join(strs, sep) ==
  IF strs = <<>> THEN ""
  ELSE IF Len(strs) = 1 THEN strs[1]
  ELSE strs[1] \o sep \o Join(Tail(strs), sep)

\* str.strip(): leading and trailing whitespace removed
RECURSIVE LStrip(_)
LStrip(toks) ==
  IF toks # <<>> /\ IsBlank(Head(toks)) THEN LStrip(Tail(toks)) ELSE toks

RECURSIVE RStrip(_)
RStrip(toks) ==
  IF toks # <<>> /\ IsBlank(toks[Len(toks)])
  THEN RStrip(SubSeq(toks, 1, Len(toks) - 1)) ELSE toks

Strip(toks) == RStrip(LStrip(toks))

\* a line comment that has taken in the LIMIT clause appended after it:
\* its value with and without the final semicolon
Swallowed(n) == LineComment.value \o " LIMIT " \o ToString(n)
SwallowedSemi(v) == \E n \in Numerals : v = Swallowed(n) \o ";"

\* str.rstrip(';'): every trailing semicolon removed, also the one that
\* ends the value of a line comment
RECURSIVE RStripSemi(_)
RStripSemi(toks) ==
  IF toks # <<>> /\ toks[Len(toks)].value = ";"
  THEN RStripSemi(SubSeq(toks, 1, Len(toks) - 1))
  ELSE IF toks # <<>> /\ SwallowedSemi(toks[Len(toks)].value)
  THEN [toks EXCEPT ![Len(toks)].value =
          Swallowed(CHOOSE n \in Numerals : @ = Swallowed(n) \o ";")]
  ELSE toks

\* str.endswith(';')
EndsWithSemi(toks) ==
  toks # <<>> /\ (toks[Len(toks)].value = ";" \/ SwallowedSemi(toks[Len(toks)].value))

\* ------------------------------------------------------------------ state
VARIABLES
  sql_input,        \* add_limit_safe argument: the SQL text (as tokens)
  limit,            \* add_limit_safe argument
  allow_multi_stmt, \* add_limit_safe argument
  max_limit,        \* add_limit_safe argument
  keep_blank,       \* installed sqlparse yields a trailing whitespace-only statement
  pc,               \* "call" | "returned" | "raised"
  new_stmts,        \* the rewritten statements, in order (as tokens)
  ret,              \* the returned str, or the raised exception's type
  ret_again         \* what add_limit_safe gives for the str it returned

rwVars == <<sql_input, limit, allow_multi_stmt, max_limit, pc, new_stmts, ret,
            ret_again>>

\* add_limit_safe has not been called on its own output
NotAgain == [done |-> FALSE, exc |-> "None", text |-> ""]

VARIABLES
  engine,           \* DorisConnectorPydoris.engine: 0 (None) or the engine's id
  engines_created,  \* how many engines create_engine has built
  req,              \* per request: where its handler is and what it holds
  sent,             \* the statements handed to connection.execute
  committed,        \* the requests whose connection was committed
  response          \* per request: the HTTP response body

exVars == <<engine, engines_created, req, sent, committed, response>>

VARIABLES
  fs_adapters,        \* FileSystemManager._fs_adapters: cache key -> adapter
  default_s3_client,  \* FileSystemManager._default_s3_client: 0 (None) or id
  clients_made,       \* how many clients new_s3_client has built
  defaults_made,      \* how many of them were built as the default client
  adapters_made,      \* how many adapters _create_fs_adapter has built
  fs_calls,           \* how many manager calls were made
  fs_ret,             \* what the last manager call returned or raised
  fs_got,             \* every <<cache key, adapter id>> get_fs has returned
  fs_used             \* every <<scheme, client id>> an S3 adapter has used

fsVars == <<fs_adapters, default_s3_client, clients_made, defaults_made,
            adapters_made, fs_calls, fs_ret, fs_got, fs_used>>

VARIABLES
  raw_data,        \* doris_data_2_json argument, as it was passed
  raw_after,       \* the caller's list and rows as they are now
  client_fails,    \* the storage client raises when asked to sign
  ser_pc,          \* "call" before doris_data_2_json ran, "done" after
  processed_data,  \* what doris_data_2_json returned
  ser_exc,         \* the exception that left doris_data_2_json ("None" if none)
  fault_at,        \* the item whose materialization raised (0 if none)
  ser_asked,       \* the uris handed to fs_manager.generate_presigned_url
  field_value,         \* safe_json_loads argument
  parsed_field_value   \* what safe_json_loads returned or raised

serVars == <<raw_data, raw_after, client_fails, ser_pc, processed_data, ser_exc,
             fault_at, ser_asked, field_value, parsed_field_value>>

VARIABLES
  cred_file,   \* the credential file: whether it exists, and its lines
  tmp_file,    \* the temporary file update_user writes beside it
  now,         \* datetime.now(), in days
  task         \* per coroutine: the call it runs and where it stands

authVars == <<cred_file, tmp_file, now, task>>

\* ------------------------------------------- credential file, at rest
MaxTasks == 2
Tasks == 1..MaxTasks

\* a file that does not exist
NoFile == [exists |-> FALSE, lines |-> <<>>]

\* a coroutine that has not been started: a login, an update_user call or
\* a request passing auth_middleware
NoTask == [op |-> "None", phase |-> "None", pc |-> "idle", token |-> "", username |-> "", name |-> "", time |-> "", column |-> "", value |-> "", out |-> <<>>, found |-> FALSE, ret |-> "None", path |-> <<>>, header |-> <<>>, status |-> 0, exc |-> "None", called |-> FALSE]

AuthIdle ==
  /\ cred_file = NoFile
  /\ tmp_file = NoFile
  /\ now = 0
  /\ task = [t \in Tasks |-> NoTask]

\* FileSystemManager.__init__
NoAdapter == [id |-> 0, kind |-> "None", scheme |-> ""]
CacheKeys == {"local", "s3", "bos"}
NoFsRet == [uri |-> <<>>, op |-> "None", exc |-> "None", adapter |-> 0, client |-> 0]

FsInit ==
  /\ fs_adapters = [k \in CacheKeys |-> NoAdapter]
  /\ default_s3_client = 0
  /\ clients_made = 0
  /\ defaults_made = 0
  /\ adapters_made = 0
  /\ fs_calls = 0
  /\ fs_ret = NoFsRet
  /\ fs_got = {}
  /\ fs_used = {}

\* no materializer call is under way
SerIdle ==
  /\ raw_data = <<>>
  /\ raw_after = <<>>
  /\ client_fails = FALSE
  /\ ser_pc = "idle"
  /\ processed_data = <<>>
  /\ ser_exc = "None"
  /\ fault_at = 0
  /\ ser_asked = <<>>
  /\ field_value = <<>>
  /\ parsed_field_value = <<>>

\* ------------------------------------------------- sqlparse.parse (split)
\* sqlparse.engine.StatementSplitter: a statement ends at a ';' at nesting
\* level 0; whitespace (not newlines) and single-line comments after the
\* ';' stay with it.  Parentheses change the level.  Whether a pending
\* whitespace-only tail is yielded depends on the sqlparse release.
EOS_TTYPE == {"Text.Whitespace", "Comment.Single"}

ChangeSplitLevel(tok) ==
  IF tok.ttype = "Punctuation" /\ tok.value = "(" THEN 1
  ELSE IF tok.ttype = "Punctuation" /\ tok.value = ")" THEN -1
  ELSE 0

AllWhitespace(toks) == \A i \in 1..Len(toks) : IsBlank(toks[i])

RECURSIVE SplitFrom(_, _, _, _, _, _)
SplitFrom(toks, i, cur, level, consume_ws, acc) ==
  IF i > Len(toks)
  THEN IF cur # <<>> /\ (keep_blank \/ ~AllWhitespace(cur))
       THEN Append(acc, cur) ELSE acc
  ELSE LET t == toks[i]
           flush == consume_ws /\ t.ttype \notin EOS_TTYPE
           cur1 == IF flush THEN <<>> ELSE cur
           acc1 == IF flush THEN Append(acc, cur) ELSE acc
           lvl1 == (IF flush THEN 0 ELSE level) + ChangeSplitLevel(t)
           cws1 == (consume_ws /\ ~flush)
                   \/ (lvl1 <= 0 /\ t.ttype = "Punctuation" /\ t.value = ";")
       IN SplitFrom(toks, i + 1, Append(cur1, t), lvl1, cws1, acc1)

Parse(toks) == SplitFrom(toks, 1, <<>>, 0, FALSE, <<>>)

\* ------------------------------------------------------- doris_connector
\* `token.ttype in (Comment, String)`: membership in a plain tuple compares
\* the token type for equality with the two parent types.
Skipped(tok) == tok.ttype \in {"Comment", "Literal.String"}

has_limit_clause(stmt) ==
  \E i \in 1..Len(stmt) : ~Skipped(stmt[i]) /\ Upper(stmt[i].value) = "LIMIT"

RECURSIVE ParseLimitFrom(_, _, _)
ParseLimitFrom(stmt, i, limit_token_found) ==
  IF i > Len(stmt) THEN -1
  ELSE LET t == stmt[i] IN
    IF Skipped(t) THEN ParseLimitFrom(stmt, i + 1, limit_token_found)
    ELSE IF limit_token_found
      THEN IF IsBlank(t) THEN ParseLimitFrom(stmt, i + 1, TRUE)
           ELSE IF IsInt(t.value) THEN IntOf(t.value) ELSE -1
      ELSE ParseLimitFrom(stmt, i + 1, Upper(t.value) = "LIMIT")

parse_limit_value(stmt) == ParseLimitFrom(stmt, 1, FALSE)

RECURSIVE ReplaceFrom(_, _, _, _)
ReplaceFrom(stmt, i, limit_token_found, new_limit) ==
  IF i > Len(stmt) THEN <<>>
  ELSE LET t == stmt[i] IN
    IF Skipped(t)
    THEN <<t>> \o ReplaceFrom(stmt, i + 1, limit_token_found, new_limit)
    ELSE IF limit_token_found
      THEN IF IsBlank(t)
           THEN <<t>> \o ReplaceFrom(stmt, i + 1, TRUE, new_limit)
           ELSE IF IsInt(t.value)
           THEN <<IntTok(new_limit)>> \o ReplaceFrom(stmt, i + 1, FALSE, new_limit)
           ELSE <<t>> \o ReplaceFrom(stmt, i + 1, FALSE, new_limit)
      ELSE <<t>> \o ReplaceFrom(stmt, i + 1, Upper(t.value) = "LIMIT", new_limit)

replace_limit_clause(sql_str, new_limit) ==
  LET parsed == Parse(sql_str)[1]
      new_sql == Strip(ReplaceFrom(parsed, 1, FALSE, new_limit))
  IN IF EndsWithSemi(new_sql) THEN new_sql ELSE Append(new_sql, Semi)

\* mutant: the floor of 1 is forgotten
target_limit_no_floor(lim, maxl) == Min(lim, maxl)

target_limit_of(lim, maxl) ==
  LET m == Min(lim, maxl) IN IF m < 1 THEN 1 ELSE m

\* the first token of type DML, upper-cased; "None" when there is none
RECURSIVE StmtTypeFrom(_, _)
StmtTypeFrom(stmt, i) ==
  IF i > Len(stmt) THEN "None"
  ELSE IF stmt[i].ttype = "Keyword.DML" THEN Upper(stmt[i].value)
  ELSE StmtTypeFrom(stmt, i + 1)

stmt_type_of(stmt) == StmtTypeFrom(stmt, 1)

\* f"{stmt_clean} LIMIT {target_limit};"
AppendLimit(stmt_str, target_limit) ==
  RStripSemi(stmt_str) \o <<WS, LIMIT, WS, IntTok(target_limit), Semi>>

\* mutant: an existing LIMIT equal to the target is replaced too
RewriteStmt_ge(stmt, target_limit) ==
  LET stmt_str == Strip(stmt) IN
  IF has_limit_clause(stmt)
  THEN IF parse_limit_value(stmt) >= target_limit
       THEN replace_limit_clause(stmt_str, target_limit)
       ELSE stmt_str
  ELSE IF stmt_type_of(stmt) \notin {"SELECT", "UPDATE", "DELETE"}
       THEN stmt_str
       ELSE AppendLimit(stmt_str, target_limit)

\* mutant: every DML statement gets a LIMIT, INSERT included
RewriteStmt_any_dml(stmt, target_limit) ==
  LET stmt_str == Strip(stmt) IN
  IF has_limit_clause(stmt)
  THEN IF parse_limit_value(stmt) > target_limit
       THEN replace_limit_clause(stmt_str, target_limit)
       ELSE stmt_str
  ELSE IF stmt_type_of(stmt) = "None"
       THEN stmt_str
       ELSE AppendLimit(stmt_str, target_limit)

\* one pass of the loop body for a non-empty statement
RewriteStmt(stmt, target_limit) ==
  LET stmt_str == Strip(stmt) IN
  IF has_limit_clause(stmt)
  THEN IF parse_limit_value(stmt) > target_limit
       THEN replace_limit_clause(stmt_str, target_limit)
       ELSE stmt_str
  ELSE IF stmt_type_of(stmt) \notin {"SELECT", "UPDATE", "DELETE"}
       THEN stmt_str
       ELSE AppendLimit(stmt_str, target_limit)

\* mutant: whitespace-only statements are not dropped
RewriteAll_keep_blank(stmts, target_limit) ==
  [i \in 1..Len(stmts) |-> RewriteStmt(stmts[i], target_limit)]

RECURSIVE RewriteAll(_, _)
RewriteAll(stmts, target_limit) ==
  IF stmts = <<>> THEN <<>>
  ELSE IF Strip(Head(stmts)) = <<>>
       THEN RewriteAll(Tail(stmts), target_limit)
       ELSE <<RewriteStmt(Head(stmts), target_limit)>>
            \o RewriteAll(Tail(stmts), target_limit)

TextOfEach(stmts) == [i \in 1..Len(stmts) |-> Text(stmts[i])]

\* mutant: two statements slip through
MultiRejected_off_by_one(toks, allow) == Len(Parse(toks)) > 2 /\ ~allow

MultiRejected(toks, allow) == Len(Parse(toks)) > 1 /\ ~allow

\* ------------------------------------------------------------ the inputs
Nums == 1..MaxNum
Verbs == {SELECT, DELETE, INSERT, SHOW}

LimitValues ==
  {<<IntTok(n)>> : n \in Nums}
  \cup {<<Placeholder>>}
  \cup {<<IntTok(n), Comma, IntTok(m)>> : n \in Nums, m \in Nums}
  \cup {<<CommentTok, WS, IntTok(n)>> : n \in Nums}

Inner(n) == <<WS, FROM, WS, LParen, SELECT, WS, NameT, WS, LIMIT, WS, IntTok(n), RParen>>

Clauses ==
  {<<>>, <<WS, StringLimit>>, <<WS, CommentLimit>>}
  \cup {<<WS, LIMIT, WS>> \o v : v \in LimitValues}
  \cup {<<WS, limit_lc, WS, IntTok(n)>> : n \in Nums}
  \cup {Inner(n) : n \in Nums}
  \cup {Inner(n) \o <<WS, LIMIT, WS, IntTok(m)>> : n \in Nums, m \in Nums}

Tails == {<<>>, <<Semi>>, <<Semi, WS>>, <<Semi, NL>>}

SingleInputs ==
  {<<>>, <<WS>>}
  \cup {<<v, WS, NameT>> \o c \o tl : v \in Verbs, c \in Clauses, tl \in Tails}
  \cup {<<SELECT, WS, NameT, WS, LineComment>>}

MultiSegs ==
  {<<v, WS, NameT>> \o c \o <<Semi>> :
     v \in {SELECT, SHOW}, c \in {<<>>, <<WS, LIMIT, WS, IntTok(MaxNum)>>}}

RECURSIVE Chains(_)
Chains(k) ==
  IF k = 1 THEN MultiSegs
  ELSE {a \o <<WS>> \o b : a \in Chains(k - 1), b \in MultiSegs}

MultiInputs ==
  {c \o tl : c \in UNION {Chains(k) : k \in 2..MaxStmts}, tl \in {<<>>, <<NL>>}}

Inputs == SingleInputs \cup MultiInputs

\* ------------------------------------------------------------- behaviour
\* add_limit_safe as a function: the exception it raises ("None" when it
\* returns) and the list new_stmts
AddLimitSafe(sql, lim, allow, maxl) ==
  IF MultiRejected(sql, allow)
  THEN [exc |-> "ValueError", stmts |-> <<>>]
  ELSE [exc |-> "None",
        stmts |-> RewriteAll(Parse(sql), target_limit_of(lim, maxl))]

SafeSql(stmts) == Join(TextOfEach(stmts), "\n")

\* values of a result's data: None, a list of rows, the dict of probes
NoData == [kind |-> "None"]
Rows(rs) == [kind |-> "rows", rows |-> rs]
ExistsProbes == [kind |-> "exists_probes"]

\* no result dict yet / no response yet
NoResult == [code |-> -1, message |-> "None", data |-> NoData]
NoResponse == [code |-> -1, message |-> "None", data |-> NoData]

NoReq == [pc |-> "idle", sql |-> <<>>, safe |-> <<>>, result |-> NoResult,
          exc |-> "None"]

Reqs == 1..MaxReqs

ExInit ==
  /\ engine = 0
  /\ engines_created = 0
  /\ req = [r \in Reqs |-> NoReq]
  /\ sent = {}
  /\ committed = {}
  /\ response = [r \in Reqs |-> NoResponse]

RwInit ==
  /\ sql_input \in Inputs
  /\ limit \in 0..MaxLimit
  /\ max_limit \in 1..MaxCeil
  /\ allow_multi_stmt \in BOOLEAN
  /\ keep_blank \in BOOLEAN
  /\ pc = "call"
  /\ new_stmts = <<>>
  /\ ret = "None"
  /\ ret_again = NotAgain

add_limit_safe ==
  /\ pc = "call"
  /\ LET r == AddLimitSafe(sql_input, limit, allow_multi_stmt, max_limit) IN
       /\ pc' = IF r.exc = "None" THEN "returned" ELSE "raised"
       /\ new_stmts' = r.stmts
       /\ ret' = IF r.exc = "None" THEN SafeSql(r.stmts) ELSE r.exc
  /\ UNCHANGED <<sql_input, limit, allow_multi_stmt, max_limit, keep_blank,
                 ret_again>>
  /\ UNCHANGED <<exVars, fsVars, serVars, authVars>>

vars == <<rwVars, keep_blank, exVars, fsVars, serVars, authVars>>

Init == RwInit /\ ExInit /\ FsInit /\ SerIdle /\ AuthIdle
\* the lexer on a returned text: the text of a token sequence gives back
\* its tokens, except that a line comment runs to the end of its line
\* (sqlparse: '(--|# ).*?(\r\n|\r|\n|$)') and takes in what was written
\* after it; open = the token before i is a line comment still running
RECURSIVE LexFrom(_, _, _, _)
LexFrom(toks, i, acc, open) ==
  IF i > Len(toks) THEN acc
  ELSE IF open
  THEN LexFrom(toks, i + 1,
               [acc EXCEPT ![Len(acc)].value = @ \o toks[i].value],
               toks[i].ttype # "Text.Whitespace.Newline")
  ELSE LexFrom(toks, i + 1, Append(acc, toks[i]), toks[i].ttype = "Comment.Single")

\* "\n".join(new_stmts), as tokens
RECURSIVE Joined(_)
Joined(stmts) ==
  IF stmts = <<>> THEN <<>>
  ELSE IF Len(stmts) = 1 THEN stmts[1]
  ELSE stmts[1] \o <<NL>> \o Joined(Tail(stmts))

Lexed(stmts) == LexFrom(Joined(stmts), 1, <<>>, FALSE)

\* add_limit_safe called on the str it returned, with the same limit,
\* allow_multi_stmt and max_limit
add_limit_safe_again ==
  /\ pc = "returned"
  /\ ~ret_again.done
  /\ LET r == AddLimitSafe(Lexed(new_stmts), limit, allow_multi_stmt, max_limit) IN
       ret_again' = [done |-> TRUE, exc |-> r.exc,
                     text |-> IF r.exc = "None" THEN SafeSql(r.stmts) ELSE ""]
  /\ UNCHANGED <<sql_input, limit, allow_multi_stmt, max_limit, keep_blank, pc,
                 new_stmts, ret>>
  /\ UNCHANGED <<exVars, fsVars, serVars, authVars>>

Next == add_limit_safe
Spec == Init /\ [][Next]_vars

\* add_limit_safe, and then add_limit_safe on what it returned
NextTwice == add_limit_safe \/ add_limit_safe_again
SpecTwice == Init /\ [][NextTwice]_vars

\* ------------------------------------------------ the ExecuteSql pipeline
\* The requests the endpoint receives.
ExecInputs ==
  { <<SELECT, WS, NameT>>,
    <<SELECT, WS, NameT, WS, limit_lc, WS, IntTok(MaxNum), Semi>>,
    <<SHOW, WS, NameT>>,
    <<DELETE, WS, NameT, Semi>>,
    <<SHOW, WS, NameT, Semi, NL>>,
    <<SELECT, WS, NameT, Semi, WS, DELETE, WS, NameT, Semi>>,
    <<CommentTok, WS, DELETE, WS, NameT, Semi>> }

\* rows the warehouse may answer a read with
RowSets == {<<>>, <<"row">>}

\* sql.text.strip().upper().startswith(("INSERT", "UPDATE", "DELETE", "ALTER"))
IsWriteSql(stmts) ==
  LET toks == Strip(IF stmts = <<>> THEN <<>> ELSE stmts[1]) IN
  toks # <<>> /\ Upper(toks[1].value) \in {"INSERT", "UPDATE", "DELETE", "ALTER"}

\* after the engine is at hand: add_limit_safe, then the execution is
\* handed to a worker thread; a ValueError leaves execute_custom_sql
AfterEngine(r, sql) ==
  LET rw == AddLimitSafe(sql, DefaultLimit, FALSE, DefaultMaxLimit) IN
  IF rw.exc # "None"
  THEN [pc |-> "raised", sql |-> sql, safe |-> <<>>, result |-> NoResult,
        exc |-> rw.exc]
  ELSE [pc |-> "connect", sql |-> sql, safe |-> rw.stmts, result |-> NoResult,
        exc |-> "None"]

\* sql_query is entered with a body.sql drawn from sqls and runs up to its
\* first suspension
sql_query_with(r, sqls) ==
  /\ req[r].pc = "idle"
  /\ \E sql \in sqls :
       req' = [req EXCEPT ![r] =
                 IF engine # 0 THEN AfterEngine(r, sql)
                 ELSE [NoReq EXCEPT !.pc = "create_check", !.sql = sql]]
  /\ UNCHANGED <<engine, engines_created, sent, committed, response>>
  /\ UNCHANGED <<rwVars, keep_blank, fsVars, serVars, authVars>>

\* POST /sql/query
sql_query(r) == sql_query_with(r, ExecInputs)

\* _create_engine_sync on a worker thread: the test of self.engine
create_engine_check(r) ==
  /\ req[r].pc = "create_check"
  /\ req' = [req EXCEPT ![r].pc = IF engine # 0 THEN "rewrite" ELSE "create_make"]
  /\ UNCHANGED <<engine, engines_created, sent, committed, response>>
  /\ UNCHANGED <<rwVars, keep_blank, fsVars, serVars, authVars>>

\* _create_engine_sync: create_engine and the assignment, or its failure
create_engine_make(r) ==
  /\ req[r].pc = "create_make"
  /\ \E ok \in BOOLEAN :
       IF ok
       THEN /\ engines_created' = engines_created + 1
            /\ engine' = engines_created + 1
            /\ req' = [req EXCEPT ![r].pc = "rewrite"]
       ELSE /\ req' = [req EXCEPT ![r].pc = "raised", ![r].exc = "EngineError"]
            /\ UNCHANGED <<engine, engines_created>>
  /\ UNCHANGED <<sent, committed, response>>
  /\ UNCHANGED <<rwVars, keep_blank, fsVars, serVars, authVars>>

\* execute_custom_sql resumes with the engine
rewrite(r) ==
  /\ req[r].pc = "rewrite"
  /\ req' = [req EXCEPT ![r] = AfterEngine(r, req[r].sql)]
  /\ UNCHANGED <<engine, engines_created, sent, committed, response>>
  /\ UNCHANGED <<rwVars, keep_blank, fsVars, serVars, authVars>>

\* variant: the blocking work runs on the event loop instead of a worker
\* thread, so a connection is acquired only when no execution is in flight
connect_on_loop(r) ==
  /\ req[r].pc = "connect"
  /\ \A o \in Reqs : req[o].pc # "execute"
  /\ \E ok \in BOOLEAN :
       req' = [req EXCEPT ![r] =
                 IF ok THEN [@ EXCEPT !.pc = "execute"]
                 ELSE [@ EXCEPT !.pc = "raised", !.exc = "ConnectError"]]
  /\ UNCHANGED <<engine, engines_created, sent, committed, response>>
  /\ UNCHANGED <<rwVars, keep_blank, fsVars, serVars, authVars>>

\* _sync_execute_sql on a worker thread: engine.connect()
connect(r) ==
  /\ req[r].pc = "connect"
  /\ \E ok \in BOOLEAN :
       req' = [req EXCEPT ![r] =
                 IF ok THEN [@ EXCEPT !.pc = "execute"]
                 ELSE [@ EXCEPT !.pc = "raised", !.exc = "ConnectError"]]
  /\ UNCHANGED <<engine, engines_created, sent, committed, response>>
  /\ UNCHANGED <<rwVars, keep_blank, fsVars, serVars, authVars>>

\* _sync_execute_sql: connection.execute and what follows it
execute(r) ==
  /\ req[r].pc = "execute"
  /\ sent' = sent \cup {[req |-> r, sql |-> SafeSql(req[r].safe)]}
  /\ \E ok \in BOOLEAN, rows \in RowSets :
       IF IsWriteSql(req[r].safe)
       THEN IF ok
            THEN /\ committed' = committed \cup {r}
                 /\ req' = [req EXCEPT ![r].pc = "respond",
                              ![r].result = [code |-> 0,
                                             message |-> ToString(Len(rows)),
                                             data |-> NoData]]
            ELSE /\ UNCHANGED committed
                 /\ req' = [req EXCEPT ![r].pc = "respond",
                              ![r].result = [code |-> 59402, message |-> "exc",
                                             data |-> NoData]]
       ELSE /\ UNCHANGED committed
            /\ req' = [req EXCEPT ![r].pc = "respond",
                         ![r].result =
                           IF ok THEN [code |-> 0, message |-> "ok",
                                       data |-> Rows(rows)]
                           ELSE [code |-> 59403, message |-> "exc",
                                 data |-> NoData]]
  /\ UNCHANGED <<engine, engines_created, response>>
  /\ UNCHANGED <<rwVars, keep_blank, fsVars, serVars, authVars>>

\* sql_query resumes with execute_custom_sql's result: sql_result is
\* rebound to the three fs_manager.exists probes, which is what is returned
respond(r) ==
  /\ req[r].pc = "respond"
  /\ response' = [response EXCEPT ![r] =
                    [code |-> 0, message |-> "success", data |-> ExistsProbes]]
  /\ req' = [req EXCEPT ![r].pc = "done"]
  /\ UNCHANGED <<engine, engines_created, sent, committed>>
  /\ UNCHANGED <<rwVars, keep_blank, fsVars, serVars, authVars>>

\* an exception that left sql_query: generic_exception_handler
generic_exception_handler(r) ==
  /\ req[r].pc = "raised"
  /\ response' = [response EXCEPT ![r] =
                    [code |-> 500, message |-> "internal", data |-> NoData]]
  /\ req' = [req EXCEPT ![r].pc = "failed"]
  /\ UNCHANGED <<engine, engines_created, sent, committed>>
  /\ UNCHANGED <<rwVars, keep_blank, fsVars, serVars, authVars>>

ExecRwInit ==
  /\ sql_input = <<>>
  /\ limit = DefaultLimit
  /\ max_limit = DefaultMaxLimit
  /\ allow_multi_stmt = FALSE
  /\ keep_blank \in BOOLEAN
  /\ pc = "idle"
  /\ new_stmts = <<>>
  /\ ret = "None"
  /\ ret_again = NotAgain

InitExec == ExecRwInit /\ ExInit /\ FsInit /\ SerIdle /\ AuthIdle

NextExec ==
  \/ \E r \in Reqs : sql_query(r)
  \/ \E r \in Reqs : create_engine_check(r)
  \/ \E r \in Reqs : create_engine_make(r)
  \/ \E r \in Reqs : rewrite(r)
  \/ \E r \in Reqs : connect(r)
  \/ \E r \in Reqs : execute(r)
  \/ \E r \in Reqs : respond(r)
  \/ \E r \in Reqs : generic_exception_handler(r)

SpecExec == InitExec /\ [][NextExec]_vars

\* the same pipeline for the scheduling of concurrent calls: the statement
\* sent is one short read
ConcInputs == { <<SELECT, WS, NameT>> }

\* POST /sql/query with that statement
sql_query_conc(r) == sql_query_with(r, ConcInputs)

NextConc ==
  \/ \E r \in Reqs : sql_query_conc(r)
  \/ \E r \in Reqs : create_engine_check(r)
  \/ \E r \in Reqs : create_engine_make(r)
  \/ \E r \in Reqs : rewrite(r)
  \/ \E r \in Reqs : connect(r)
  \/ \E r \in Reqs : execute(r)
  \/ \E r \in Reqs : respond(r)
  \/ \E r \in Reqs : generic_exception_handler(r)

SpecConc == InitExec /\ [][NextConc]_vars

\* ============================================================== claims
\* Readings of the SQL text used to state the claims.  They look at the
\* token types the lexer assigned, not at what the rewriter computed.
IsLimitKw(tok) == tok.ttype = "Keyword" /\ tok.value \in {"LIMIT", "limit"}
IsCommentOrBlank(tok) ==
  tok.ttype \in {"Text.Whitespace", "Text.Whitespace.Newline",
                 "Comment.Multiline", "Comment.Single"}
IsNumber(tok) == tok.ttype = "Literal.Number.Integer"
NumberOf(tok) == CHOOSE n \in Numerals : IntTok(n) = tok

HasLimitKw(stmt) == \E i \in 1..Len(stmt) : IsLimitKw(stmt[i])
LimitIdx(stmt) == {i \in 1..Len(stmt) : IsLimitKw(stmt[i])}

\* index of the first token after position i that is neither whitespace
\* nor a comment; 0 when there is none
NextReal(stmt, i) ==
  LET S == {j \in (i + 1)..Len(stmt) : ~IsCommentOrBlank(stmt[j])}
  IN IF S = {} THEN 0 ELSE CHOOSE j \in S : \A k \in S : j <= k

\* the statement's verb: its first DML keyword, "None" when it has none
VerbOf(stmt) ==
  LET S == {i \in 1..Len(stmt) : stmt[i].ttype = "Keyword.DML"}
  IN IF S = {} THEN "None"
     ELSE stmt[CHOOSE i \in S : \A k \in S : i <= k].value

Limited(stmt) == VerbOf(stmt) \in {"SELECT", "UPDATE", "DELETE"}

Effective == Max(1, Min(limit, max_limit))

InStmts == Parse(sql_input)
NonBlank(stmt) == \E i \in 1..Len(stmt) : ~IsBlank(stmt[i])
\* position in the output of the i-th input statement
OutIdx(i) == Cardinality({k \in 1..i : NonBlank(InStmts[k])})
Trimmed(stmt) ==
  LET S == {i \in 1..Len(stmt) : ~IsBlank(stmt[i])}
      lo == CHOOSE i \in S : \A k \in S : i <= k
      hi == CHOOSE i \in S : \A k \in S : i >= k
  IN SubSeq(stmt, lo, hi)
Returned == pc = "returned"
Aligned == Len(new_stmts) = OutIdx(Len(InStmts))

\* paren depth in front of token i
Depth(stmt, i) ==
  Cardinality({k \in 1..(i - 1) : stmt[k].value = "("})
  - Cardinality({k \in 1..(i - 1) : stmt[k].value = ")"})

\* the row count the statement's own (outermost, last) LIMIT clause allows:
\* LIMIT n -> n, LIMIT offset, n -> n; -1 when the statement has no such
\* clause or its count is not a number
RowBound(stmt) ==
  LET S == {i \in LimitIdx(stmt) : Depth(stmt, i) = 0}
  IN IF S = {} THEN -1
     ELSE LET i == CHOOSE i \in S : \A k \in S : i >= k
              a == NextReal(stmt, i)
              c == IF a = 0 THEN 0 ELSE NextReal(stmt, a)
              b == IF c = 0 THEN 0 ELSE NextReal(stmt, c)
          IN IF a = 0 \/ ~IsNumber(stmt[a]) THEN -1
             ELSE IF c # 0 /\ stmt[c].value = ","
                  THEN IF b # 0 /\ IsNumber(stmt[b]) THEN NumberOf(stmt[b]) ELSE -1
                  ELSE NumberOf(stmt[a])

\* every LIMIT keyword of the statement is followed by a number
AllLimitsNumeric(stmt) ==
  \A i \in LimitIdx(stmt) :
    NextReal(stmt, i) # 0 /\ IsNumber(stmt[NextReal(stmt, i)])

NoComment(stmt) ==
  \A i \in 1..Len(stmt) :
    stmt[i].ttype \notin {"Comment.Multiline", "Comment.Single"}

\* C1: every statement of the output carries a row-count bound, and the
\* bound is no larger than max_limit.  Stated for the statements the
\* rewriter is meant to bound (SELECT/UPDATE/DELETE) that hold no comment
\* and whose LIMIT values are all numbers, the cases where the claim is
\* least demanding.
C1_OutputBounded ==
  Returned =>
    \A k \in 1..Len(new_stmts) :
      (/\ Limited(new_stmts[k])
       /\ NoComment(new_stmts[k])
       /\ AllLimitsNumeric(new_stmts[k])) =>
        /\ RowBound(new_stmts[k]) >= 0
        /\ RowBound(new_stmts[k]) <= max_limit

\* C2: input of more than one statement without allow_multi_stmt fails
\* with the validation error and yields no rewritten SQL.
C2_MultiRejected ==
  (pc # "call" /\ Len(InStmts) > 1 /\ ~allow_multi_stmt) =>
    (pc = "raised" /\ ret = "ValueError" /\ new_stmts = <<>>)

C2_Witness ==
  /\ pc = "raised"
  /\ Len(InStmts) = 2
  /\ NonBlank(InStmts[2])
  /\ limit > max_limit

\* C5: a SELECT/UPDATE/DELETE statement without a LIMIT clause comes out as
\* its text without the trailing semicolon, followed by " LIMIT n;" with
\* n = max(1, min(limit, max_limit)).
C5_LimitInjected ==
  Returned =>
    /\ Aligned
    /\ \A i \in 1..Len(InStmts) :
         (NonBlank(InStmts[i]) /\ Limited(InStmts[i]) /\ ~HasLimitKw(InStmts[i])) =>
           LET body == Trimmed(InStmts[i])
               core == IF body[Len(body)] = Semi
                       THEN SubSeq(body, 1, Len(body) - 1) ELSE body
           IN Text(new_stmts[OutIdx(i)])
                = Text(core) \o " LIMIT " \o ToString(Effective) \o ";"

C5_Witness ==
  /\ Returned
  /\ limit = 0
  /\ Len(InStmts) = 1
  /\ Limited(InStmts[1]) /\ ~HasLimitKw(InStmts[1])
  /\ InStmts[1][Len(InStmts[1])] = WS
  /\ ret = "DELETE t LIMIT 1;"

\* the value token of the LIMIT keyword at position l (0 when none)
ValueAt(stmt, l) == NextReal(stmt, l)
Oversized(stmt, l) ==
  /\ ValueAt(stmt, l) # 0
  /\ IsNumber(stmt[ValueAt(stmt, l)])
  /\ NumberOf(stmt[ValueAt(stmt, l)]) > Effective

\* the statement with every oversized LIMIT value replaced in place
Downgraded(stmt) ==
  LET T == Trimmed(stmt)
  IN [i \in 1..Len(T) |->
        IF \E l \in LimitIdx(T) : i = ValueAt(T, l) /\ Oversized(T, l)
        THEN IntTok(Effective) ELSE T[i]]

\* C6: a statement holding a LIMIT clause whose numeric value exceeds the
\* effective limit comes out with that value replaced by the effective
\* limit and the rest of its text unchanged (a closing semicolon added by
\* the rewriter is not counted as a change).  Stated for statements that
\* hold no comment.
C6_OversizedReplaced ==
  Returned =>
    /\ Aligned
    /\ \A i \in 1..Len(InStmts) :
         (/\ NonBlank(InStmts[i])
          /\ NoComment(InStmts[i])
          /\ \E l \in LimitIdx(InStmts[i]) : Oversized(InStmts[i], l)) =>
           Text(new_stmts[OutIdx(i)])
             \in {Text(Downgraded(InStmts[i])), Text(Downgraded(InStmts[i])) \o ";"}

\* the statement's first LIMIT keyword
FirstLimit(stmt) == CHOOSE l \in LimitIdx(stmt) : \A k \in LimitIdx(stmt) : l <= k

C8_OtherKindsUnmodified ==
  Returned =>
    /\ Aligned
    /\ \A i \in 1..Len(InStmts) :
         (NonBlank(InStmts[i]) /\ ~Limited(InStmts[i])) =>
           Text(new_stmts[OutIdx(i)]) = Text(Trimmed(InStmts[i]))

\* C8 amended: a statement whose verb is not SELECT/UPDATE/DELETE and that
\* holds no LIMIT clause comes out as its own text, trimmed of surrounding
\* whitespace: no LIMIT is appended.
C8_OtherKindsPassThrough ==
  Returned =>
    /\ Aligned
    /\ \A i \in 1..Len(InStmts) :
         (NonBlank(InStmts[i]) /\ ~Limited(InStmts[i]) /\ ~HasLimitKw(InStmts[i])) =>
           Text(new_stmts[OutIdx(i)]) = Text(Trimmed(InStmts[i]))

C8_Witness ==
  /\ Returned
  /\ Len(InStmts) = 1
  /\ VerbOf(InStmts[1]) = "INSERT"
  /\ InStmts[1][Len(InStmts[1])] = WS
  /\ limit > max_limit
  /\ ret = "INSERT t 'LIMIT';"

\* the output lines, joined
RECURSIVE Lines(_)
Lines(ss) ==
  IF ss = <<>> THEN ""
  ELSE IF Len(ss) = 1 THEN Text(ss[1])
  ELSE Lines(SubSeq(ss, 1, Len(ss) - 1)) \o "\n" \o Text(ss[Len(ss)])

\* what the rewriter returns for one statement submitted alone
Alone(stmt) == RewriteAll(Parse(stmt), target_limit_of(limit, max_limit))

\* C9: with allow_multi_stmt the statements are rewritten one by one by the
\* single-statement rules, whitespace-only statements are dropped, and the
\* results are joined by newlines in input order.
C9_MultiIndependent ==
  (Returned /\ allow_multi_stmt) =>
    /\ Aligned
    /\ \A i \in 1..Len(InStmts) :
         NonBlank(InStmts[i]) => <<new_stmts[OutIdx(i)]>> = Alone(InStmts[i])
    /\ ret = Lines(new_stmts)

C9_Witness ==
  /\ Returned /\ allow_multi_stmt
  /\ Len(InStmts) = 3
  /\ ~NonBlank(InStmts[3])
  /\ ret = "SELECT t LIMIT 1;\nSHOW t LIMIT 1;"

\* ---------------------------------------------------- pipeline claims
\* execute_custom_sql has handed a result back to sql_query
ExecReturned(r) == req[r].pc \in {"respond", "done"}
\* the rewriter refused the request's SQL
RewriterRejected(r) ==
  /\ req[r].pc \in {"raised", "failed", "connect", "execute", "respond", "done"}
  /\ req[r].exc # "EngineError"
  /\ MultiRejected(req[r].sql, FALSE)
SentFor(r) == {m \in sent : m.req = r}

\* C3: when the rewriter rejects the SQL, execute_custom_sql returns a
\* structured error result (a non-zero code and a message) instead of
\* raising, and nothing is sent to the warehouse for the request.
C3_RejectionReturned ==
  \A r \in Reqs :
    RewriterRejected(r) =>
      /\ req[r].exc = "None"
      /\ ExecReturned(r)
      /\ req[r].result.code > 0
      /\ SentFor(r) = {}

\* the request met a failure of the connector
ConnectorFailed(r) ==
  \/ req[r].exc \in {"EngineError", "ConnectError"}
  \/ req[r].result.code > 0

\* C4: every connector-level failure is returned by execute_custom_sql as a
\* structured error result carrying the message; none is raised out of it.
C4_FailuresReturned ==
  \A r \in Reqs :
    ConnectorFailed(r) =>
      /\ req[r].exc = "None"
      /\ ExecReturned(r)
      /\ req[r].result.code > 0
      /\ req[r].result.message = "exc"

\* C10: the response of a served request is the outcome of its SQL: the
\* executor's status and the rows made from the executor's rows.  Stated
\* where the rows need no transformation: a failed execution must not be
\* answered as a success, and a read that produced no rows is answered
\* with no rows (or with the executor's result as a whole).
C10_ResponseIsOutcome ==
  \A r \in Reqs :
    req[r].pc = "done" =>
      \/ response[r].data = req[r].result
      \/ /\ response[r].code = req[r].result.code
         /\ (req[r].result.data = Rows(<<>>) => response[r].data = Rows(<<>>))

\* ---------------------------------------------------------------------
\* C11
\* ---------------------------------------------------------------------

\* the call's SQL execution has been handed to a worker thread and has
\* not come back
InFlight(r) == req[r].pc = "execute"

\* the call has not been answered yet
Pending(r) == req[r].pc \notin {"done", "failed"}

\* some step of call r
StepOf(r) ==
  \/ sql_query_conc(r)
  \/ create_engine_check(r)
  \/ create_engine_make(r)
  \/ rewrite(r)
  \/ connect(r)
  \/ execute(r)
  \/ respond(r)
  \/ generic_exception_handler(r)

\* C11: concurrent calls do not serialize: while one call's SQL execution
\* is in flight on a worker thread, every other unanswered call can take
\* its next step (be started, create the engine, connect, execute, be
\* answered), so a second call can start and complete meanwhile
C11_NonBlocking ==
  \A r1, r2 \in Reqs :
    (r1 # r2 /\ InFlight(r1) /\ Pending(r2)) => ENABLED StepOf(r2)

\* two executions are in flight at the same time
C11_Witness ==
  \E r1, r2 \in Reqs : r1 # r2 /\ InFlight(r1) /\ InFlight(r2)

\* ---------------------------------------------------------------------
\* C12
\* ---------------------------------------------------------------------

\* engines that create_engine built and self.engine no longer refers to
Leaked == engines_created - (IF engine = 0 THEN 0 ELSE 1)

\* C12: under every interleaving of concurrent first uses the warehouse
\* engine is constructed at most once, and no constructed engine is left
\* unreferenced
C12_EngineOnce == engines_created <= 1 /\ Leaked = 0

\* =====================================================================
\* Result materializer: src/src/serializers/data_serializer.py
\* =====================================================================
\* A Python str is a sequence of lexemes (runs of characters that the
\* code below never splits); a Python value is a record of one shape.

DQ == "\""
SQ == "'"
\* a backslash-escaped double quote inside a string literal
BSDQ == "\\\""
SP == " "

PyVal(t, s, l, n) == [t |-> t, s |-> s, l |-> l, n |-> n]
PyNone == PyVal("none", <<>>, <<>>, 0)
PyStr(s) == PyVal("str", s, <<>>, 0)
PyInt(n) == PyVal("int", <<>>, <<>>, n)
\* a list of values
PyList(l) == PyVal("list", <<>>, l, 0)
\* a dict: its items as key, value, key, value, ... in insertion order
PyDict(kv) == PyVal("dict", <<>>, kv, 0)
\* the key is missing from the row
Absent == PyVal("absent", <<>>, <<>>, 0)

Digits == {"1", "2"}
DigitOf(x) == IF x = "1" THEN 1 ELSE 2

\* ------------------------------------------ json.loads / ast.literal_eval
\* One recursive-descent reader for both; dialect d is "json" or "python".
\* A result is [ok, v, j, sem]: ok = the text is well-formed up to j - 1,
\* v = the value, j = the next index, sem = the first exception that
\* ast.literal_eval's conversion raises ("None" if none).

Fail(i) == [ok |-> FALSE, v |-> PyNone, j |-> i, sem |-> "None"]
Done(v, j, sem) == [ok |-> TRUE, v |-> v, j |-> j, sem |-> sem]

FirstSem(a, b) == IF a # "None" THEN a ELSE b

RECURSIVE SkipWs(_, _)
SkipWs(s, i) == IF i <= Len(s) /\ s[i] = SP THEN SkipWs(s, i + 1) ELSE i

\* the index of the closing quote q at or after i, 0 if there is none
RECURSIVE CloseQuote(_, _, _)
CloseQuote(s, i, q) ==
  IF i > Len(s) THEN 0
  ELSE IF s[i] = q THEN i
  ELSE CloseQuote(s, i + 1, q)

\* the characters of a string literal's body: escapes resolved
Unescape(body) == [k \in 1..Len(body) |-> IF body[k] = BSDQ THEN DQ ELSE body[k]]

ReadString(s, i) ==
  LET c == CloseQuote(s, i + 1, s[i]) IN
  IF c = 0 THEN Fail(i)
  ELSE Done(PyStr(Unescape(SubSeq(s, i + 1, c - 1))), c + 1, "None")

\* d[k] = v on the items kv: a key that is present keeps its place
DictPut(kv, k, v) ==
  IF \E p \in 1..Len(kv) : p % 2 = 1 /\ kv[p] = k
  THEN [p \in 1..Len(kv) |->
          IF p % 2 = 0 /\ kv[p - 1] = k THEN v ELSE kv[p]]
  ELSE kv \o <<k, v>>

\* dict keys must be hashable
Unhashable(v) == v.t \in {"list", "dict"}

RECURSIVE ReadValue(_, _, _), ReadItems(_, _, _, _), ReadPairs(_, _, _, _)

ReadValue(d, s, i0) ==
  LET i == SkipWs(s, i0) IN
  IF i > Len(s) THEN Fail(i)
  ELSE IF s[i] = "[" THEN ReadItems(d, s, i + 1, <<>>)
  ELSE IF s[i] = "{" THEN ReadPairs(d, s, i + 1, <<>>)
  ELSE IF s[i] = DQ THEN ReadString(s, i)
  ELSE IF s[i] = SQ THEN (IF d = "python" THEN ReadString(s, i) ELSE Fail(i))
  ELSE IF s[i] \in Digits THEN Done(PyInt(DigitOf(s[i])), i + 1, "None")
  ELSE IF s[i] = "null"
       THEN (IF d = "json" THEN Done(PyNone, i + 1, "None")
             ELSE Done(PyNone, i + 1, "ValueError"))
  ELSE IF s[i] = "None"
       THEN (IF d = "python" THEN Done(PyNone, i + 1, "None") ELSE Fail(i))
  ELSE IF s[i] \in {"]", "}", ",", ":", BSDQ} THEN Fail(i)
  \* any other word: a name, which only Python's grammar accepts
  ELSE IF d = "python" THEN Done(PyNone, i + 1, "ValueError") ELSE Fail(i)

\* after "[" or after a ",": the items read so far are acc
ReadItems(d, s, i0, acc) ==
  LET i == SkipWs(s, i0) IN
  IF i > Len(s) THEN Fail(i)
  ELSE IF s[i] = "]" /\ (acc = <<>> \/ d = "python")
       THEN Done(PyList(acc), i + 1, "None")
  ELSE LET e == ReadValue(d, s, i)
           k == SkipWs(s, e.j) IN
       IF ~e.ok \/ k > Len(s) THEN Fail(i)
       ELSE IF s[k] = "]" THEN Done(PyList(Append(acc, e.v)), k + 1, e.sem)
       ELSE IF s[k] = ","
            THEN LET r == ReadItems(d, s, k + 1, Append(acc, e.v)) IN
                 IF r.ok THEN Done(r.v, r.j, FirstSem(e.sem, r.sem)) ELSE Fail(i)
       ELSE Fail(i)

\* after "{" or after a ",": the items read so far are acc
ReadPairs(d, s, i0, acc) ==
  LET i == SkipWs(s, i0) IN
  IF i > Len(s) THEN Fail(i)
  ELSE IF s[i] = "}" /\ (acc = <<>> \/ d = "python")
       THEN Done(PyDict(acc), i + 1, "None")
  ELSE LET key == ReadValue(d, s, i)
           c == SkipWs(s, key.j) IN
       IF ~key.ok \/ c > Len(s) THEN Fail(i)
       ELSE IF s[c] # ":" \/ (d = "json" /\ key.v.t # "str") THEN Fail(i)
       ELSE LET val == ReadValue(d, s, c + 1)
                k == SkipWs(s, val.j)
                sem == FirstSem(key.sem, FirstSem(val.sem,
                         IF Unhashable(key.v) THEN "TypeError" ELSE "None"))
                acc2 == DictPut(acc, key.v, val.v) IN
            IF ~val.ok \/ k > Len(s) THEN Fail(i)
            ELSE IF s[k] = "}" THEN Done(PyDict(acc2), k + 1, sem)
            ELSE IF s[k] = ","
                 THEN LET r == ReadPairs(d, s, k + 1, acc2) IN
                      IF r.ok THEN Done(r.v, r.j, FirstSem(sem, r.sem))
                      ELSE Fail(i)
            ELSE Fail(i)

\* the whole text is one value: [exc, v]
ReadAll(d, s) ==
  LET r == ReadValue(d, s, 1) IN
  IF ~r.ok \/ SkipWs(s, r.j) # Len(s) + 1
  THEN [exc |-> IF d = "json" THEN "JSONDecodeError" ELSE "SyntaxError",
        v |-> PyNone]
  ELSE [exc |-> r.sem, v |-> r.v]

\* json.loads(json_str)
json_loads(s) == ReadAll("json", s)

\* ast.literal_eval(json_str)
literal_eval(s) == ReadAll("python", s)

\* ------------------------------------------------------- safe_json_loads
\* re.sub(r"(?<=[{,])\s*'([^']+?)'\s*:", r'"\1":', ..): the end of a match
\* that starts at i (0 if there is none)
KeyMatchEnd(s, i) ==
  LET a == SkipWs(s, i)
      c == IF a <= Len(s) /\ s[a] = SQ THEN CloseQuote(s, a + 1, SQ) ELSE 0
      e == SkipWs(s, c + 1) IN
  IF i > 1 /\ s[i - 1] \in {"{", ","} /\ c > a + 1 /\ e <= Len(s) /\ s[e] = ":"
  THEN e ELSE 0

\* the body between the quotes of the literal that opens at or after i
QuotedBody(s, i) ==
  LET a == SkipWs(s, i) IN SubSeq(s, a + 1, CloseQuote(s, a + 1, SQ) - 1)

RECURSIVE FixKeys(_, _)
FixKeys(s, i) ==
  IF i > Len(s) THEN <<>>
  ELSE LET e == KeyMatchEnd(s, i) IN
       IF e # 0
       THEN <<DQ>> \o QuotedBody(s, i) \o <<DQ, ":">> \o FixKeys(s, e + 1)
       ELSE <<s[i]>> \o FixKeys(s, i + 1)

\* re.sub(r":\s*'([^'\\]*)'\s*(?=[,}])", r':"\1"', ..): the index after a
\* match that starts at the ":" at i (0 if there is none)
ValueMatchEnd(s, i) ==
  LET a == SkipWs(s, i + 1)
      c == IF a <= Len(s) /\ s[a] = SQ THEN CloseQuote(s, a + 1, SQ) ELSE 0
      e == SkipWs(s, c + 1) IN
  IF /\ s[i] = ":"
     /\ c # 0
     /\ \A k \in (a + 1)..(c - 1) : s[k] # BSDQ
     /\ e <= Len(s)
     /\ s[e] \in {",", "}"}
  THEN e ELSE 0

RECURSIVE FixValues(_, _)
FixValues(s, i) ==
  IF i > Len(s) THEN <<>>
  ELSE LET e == ValueMatchEnd(s, i) IN
       IF e # 0
       THEN <<":", DQ>> \o QuotedBody(s, i + 1) \o <<DQ>> \o FixValues(s, e)
       ELSE <<s[i]>> \o FixValues(s, i + 1)

\* json_str.strip().startswith(('{', '['))
LooksLikeContainer(s) ==
  LET a == SkipWs(s, 1) IN a <= Len(s) /\ s[a] \in {"{", "["}

\* safe_json_loads(json_str): [exc, v], exc = the exception that leaves it
safe_json_loads(json_str) ==
  IF json_str.t # "str" THEN [exc |-> "None", v |-> json_str]
  ELSE
    LET s == json_str.s
        first == json_loads(s)
        fixed_str == FixValues(FixKeys(s, 1), 1)
        second == json_loads(fixed_str)
        third == literal_eval(s) IN
    IF first.exc = "None" THEN first
    ELSE IF second.exc = "None" THEN second
    ELSE IF ~LooksLikeContainer(s) THEN [exc |-> "None", v |-> json_str]
    ELSE IF third.exc = "None" THEN third
    ELSE IF third.exc \in {"SyntaxError", "ValueError"}
         THEN [exc |-> "None", v |-> json_str]
    ELSE [exc |-> third.exc, v |-> PyNone]

\* =====================================================================
\* File system: src/context/file_system
\* =====================================================================
\* A URI is a Python str: a sequence of lexemes such as
\* <<"bos", ":", "/", "/", "bucket", "/", "key">>.

URI_SCHEME_SEPARATOR == <<":", "/", "/">>
URI_PATH_SEPARATOR == "/"

\* str.lower(): "S3" is the one lexeme with upper-case letters
lower(s) == [k \in 1..Len(s) |-> IF s[k] = "S3" THEN "s3" ELSE s[k]]

\* str.startswith(prefix)
startswith(s, prefix) ==
  Len(s) >= Len(prefix) /\ SubSeq(s, 1, Len(prefix)) = prefix

\* _starts_with_scheme(uri, scheme)
starts_with_scheme(uri, scheme) ==
  startswith(lower(uri), <<scheme>> \o URI_SCHEME_SEPARATOR)

\* _extract_scheme(uri): the scheme, or "ValueError" when it raises
extract_scheme(uri) ==
  IF uri = <<>> THEN ""
  ELSE IF starts_with_scheme(uri, "s3") THEN "s3"
  ELSE IF starts_with_scheme(uri, "bos") THEN "bos"
  ELSE IF starts_with_scheme(uri, "file") THEN "file"
  ELSE IF startswith(lower(uri), <<URI_PATH_SEPARATOR>>) THEN ""
  ELSE "ValueError"

\* _strip_scheme(uri), for a uri whose scheme is extracted
strip_scheme(uri) ==
  IF extract_scheme(uri) \in {"s3", "bos", "file"}
  THEN SubSeq(uri, 2 + Len(URI_SCHEME_SEPARATOR), Len(uri))
  ELSE uri

\* _validate_s3_uri(uri): "None", or "ValueError" when it raises
validate_s3_uri(uri) ==
  LET rest == strip_scheme(uri) IN
  IF extract_scheme(uri) \notin {"s3", "bos"} THEN "ValueError"
  ELSE IF rest = <<>> THEN "ValueError"
  ELSE IF rest[1] = URI_PATH_SEPARATOR THEN "ValueError"
  ELSE "None"

\* variant: a URI with the scheme s3 or bos is not validated
detect_fs_type_unvalidated(uri) ==
  IF uri = <<>> THEN "ValueError"
  ELSE IF starts_with_scheme(uri, "s3") \/ starts_with_scheme(uri, "bos") THEN "s3"
  ELSE IF startswith(lower(uri), <<"file">> \o URI_SCHEME_SEPARATOR)
       THEN (IF startswith(lower(uri), <<"file">> \o URI_SCHEME_SEPARATOR
                                        \o <<URI_PATH_SEPARATOR>>)
             THEN "local" ELSE "ValueError")
  ELSE IF startswith(uri, <<URI_PATH_SEPARATOR>>) THEN "local"
  ELSE "ValueError"

\* _detect_fs_type(uri): "local", "s3", or "ValueError" when it raises
detect_fs_type(uri) ==
  IF uri = <<>> THEN "ValueError"
  ELSE IF starts_with_scheme(uri, "s3") \/ starts_with_scheme(uri, "bos")
       THEN (IF validate_s3_uri(uri) = "None" THEN "s3" ELSE "ValueError")
  ELSE IF startswith(lower(uri), <<"file">> \o URI_SCHEME_SEPARATOR)
       THEN (IF startswith(lower(uri), <<"file">> \o URI_SCHEME_SEPARATOR
                                        \o <<URI_PATH_SEPARATOR>>)
             THEN "local" ELSE "ValueError")
  ELSE IF startswith(uri, <<URI_PATH_SEPARATOR>>) THEN "local"
  ELSE "ValueError"

\* get_fs_cache_key(uri): the key, or "ValueError" when it raises
get_fs_cache_key(uri) ==
  LET fs_type == detect_fs_type(uri) IN
  IF fs_type = "s3"
  THEN (IF extract_scheme(uri) = "" THEN "s3" ELSE extract_scheme(uri))
  ELSE fs_type

\* str.strip("/")
RECURSIVE LStripSlash(_)
LStripSlash(s) ==
  IF s # <<>> /\ s[1] = "/" THEN LStripSlash(Tail(s)) ELSE s
RECURSIVE RStripSlash(_)
RStripSlash(s) ==
  IF s # <<>> /\ s[Len(s)] = "/" THEN RStripSlash(SubSeq(s, 1, Len(s) - 1))
  ELSE s

\* the index of the first "/" of s, 0 if there is none
RECURSIVE FirstSlash(_, _)
FirstSlash(s, i) ==
  IF i > Len(s) THEN 0 ELSE IF s[i] = "/" THEN i ELSE FirstSlash(s, i + 1)

\* get_bucket_object_key(path): [exc, bucket_name, object_key]
get_bucket_object_key(path) ==
  IF ~startswith(path, <<"bos", ":", "/">>) /\ ~startswith(path, <<"s3", ":", "/">>)
  THEN \* pure_path is read before it is bound
       [exc |-> "UnboundLocalError", bucket_name |-> <<>>, object_key |-> <<>>]
  ELSE
    LET pure_path == RStripSlash(LStripSlash(SubSeq(path, 4, Len(path))))
        cut == FirstSlash(pure_path, 1) IN
    IF cut = 0
    THEN \* one value to unpack into two names
         [exc |-> "ValueError", bucket_name |-> <<>>, object_key |-> <<>>]
    ELSE [exc |-> "None",
          bucket_name |-> SubSeq(pure_path, 1, cut - 1),
          object_key |-> SubSeq(pure_path, cut + 1, Len(pure_path))]

\* what the client's generate_presigned_url answers for a bucket and a key
PresignedUrl(bucket_name, object_key) ==
  <<"http", "s", ":", "/", "/">> \o bucket_name \o <<"/">> \o object_key
    \o <<"?", "X-Amz-Signature">>

\* s3.s3_generate_presigned_url(url, expiration, s3_client): [exc, url];
\* fails = the client raises
s3_generate_presigned_url(url, fails) ==
  LET bk == get_bucket_object_key(url) IN
  IF bk.exc # "None" THEN [exc |-> bk.exc, url |-> <<>>]
  ELSE IF fails THEN [exc |-> "ClientError", url |-> <<>>]
  ELSE [exc |-> "None", url |-> PresignedUrl(bk.bucket_name, bk.object_key)]

\* LocalFileSystemAdapter.s3_generate_presigned_url(uri): the exception it
\* raises. _validate_s3_uri comes first; the class has no _client, so the
\* call after it would raise AttributeError
local_s3_generate_presigned_url(uri) ==
  IF validate_s3_uri(uri) # "None" THEN "ValueError" ELSE "AttributeError"

\* FileSystemManager.generate_presigned_url(uri) as far as its caller sees
\* it: [exc, url]. Both adapters validate the uri first.
generate_presigned_url_of(uri, fails) ==
  IF get_fs_cache_key(uri) = "ValueError" THEN [exc |-> "ValueError", url |-> <<>>]
  ELSE IF validate_s3_uri(uri) # "None" THEN [exc |-> "ValueError", url |-> <<>>]
  ELSE s3_generate_presigned_url(uri, fails)

\* ---------------------------------------------------- FileSystemManager
MaxCalls == 3

\* the URIs the manager is called with
FsUris ==
  { <<"bos", ":", "/", "/", "bucket", "/", "key">>,
    <<"s3", ":", "/", "/", "bucket", "/", "key">>,
    <<"S3", ":", "/", "/", "bucket", "/", "key">>,
    <<"s3", ":", "/", "/", "/", "key">>,
    <<"/", "key">>,
    <<"file", ":", "/", "/", "/", "key">>,
    <<"http", ":", "/", "/", "bucket", "/", "key">>,
    <<"file", ":", "/", "/", "key">>,
    <<"key">> }

\* _create_fs_adapter(uri), for a uri that has a cache key; id = the new
\* adapter's identity
create_fs_adapter(uri, id) ==
  IF detect_fs_type(uri) = "local"
  THEN [id |-> id, kind |-> "local", scheme |-> ""]
  ELSE [id |-> id, kind |-> "s3",
        scheme |-> IF extract_scheme(uri) = "" THEN "s3" ELSE extract_scheme(uri)]

\* get_fs(uri), for a uri that has a cache key: the adapter it returns
AdapterFor(uri) ==
  LET cache_key == get_fs_cache_key(uri) IN
  IF fs_adapters[cache_key] = NoAdapter
  THEN create_fs_adapter(uri, adapters_made + 1)
  ELSE fs_adapters[cache_key]

\* get_fs(uri): the cache and the counters after it
GetFs(uri) ==
  LET cache_key == get_fs_cache_key(uri) IN
  IF cache_key = "ValueError"
  THEN UNCHANGED <<fs_adapters, adapters_made, fs_got>>
  ELSE /\ fs_adapters' = [fs_adapters EXCEPT ![cache_key] = AdapterFor(uri)]
       /\ adapters_made' = IF fs_adapters[cache_key] = NoAdapter
                           THEN adapters_made + 1 ELSE adapters_made
       /\ fs_got' = fs_got \cup {<<cache_key, AdapterFor(uri).id>>}
\* variant: a client is constructed on every call
get_default_s3_client_per_call(current, fresh) == fresh
\* _get_default_s3_client: the client it returns; current = the cached one,
\* fresh = the one new_s3_client would build
get_default_s3_client(current, fresh) == IF current = 0 THEN fresh ELSE current

\* an S3 adapter calls self._client(): the manager's state after it, for the
\* adapter a; ok = new_s3_client does not raise
UseClient(a, ok) ==
  LET c == get_default_s3_client(default_s3_client, clients_made + 1) IN
  IF c = clients_made + 1 /\ ~ok
  THEN UNCHANGED <<default_s3_client, clients_made, defaults_made, fs_used>>
  ELSE /\ default_s3_client' = c
       /\ clients_made' = IF c = clients_made + 1 THEN c ELSE clients_made
       /\ defaults_made' = IF c = clients_made + 1 THEN defaults_made + 1
                           ELSE defaults_made
       /\ fs_used' = fs_used \cup {<<a.scheme, c>>}

\* the client self._client() hands out, 0 if new_s3_client raised
ClientOf(ok) ==
  LET c == get_default_s3_client(default_s3_client, clients_made + 1) IN
  IF c = clients_made + 1 /\ ~ok THEN 0 ELSE c

\* FileSystemManager.get_fs(uri)
get_fs(uri) ==
  /\ fs_calls < MaxCalls
  /\ fs_calls' = fs_calls + 1
  /\ GetFs(uri)
  /\ fs_ret' = IF get_fs_cache_key(uri) = "ValueError"
               THEN [uri |-> uri, op |-> "get_fs", exc |-> "ValueError", adapter |-> 0,
                     client |-> 0]
               ELSE [uri |-> uri, op |-> "get_fs", exc |-> "None",
                     adapter |-> AdapterFor(uri).id, client |-> 0]
  /\ UNCHANGED <<default_s3_client, clients_made, defaults_made, fs_used>>
  /\ UNCHANGED <<rwVars, keep_blank, exVars, serVars, authVars>>

\* an adapter operation that reaches the storage client: exists (found =
\* s3_file_exists does not raise) and generate_presigned_url
AdapterCall(op, uri, ok, raises) ==
  /\ fs_calls < MaxCalls
  /\ fs_calls' = fs_calls + 1
  /\ UNCHANGED <<rwVars, keep_blank, exVars, serVars, authVars>>
  /\ GetFs(uri)
  /\ IF get_fs_cache_key(uri) = "ValueError"
     THEN /\ fs_ret' = [uri |-> uri, op |-> op, exc |-> "ValueError", adapter |-> 0,
                        client |-> 0]
          /\ UNCHANGED <<default_s3_client, clients_made, defaults_made, fs_used>>
     ELSE LET a == AdapterFor(uri) IN
          IF a.kind = "local"
          THEN \* exists: os.path.exists; presign: _validate_s3_uri raises
               /\ fs_ret' = [uri |-> uri, op |-> op,
                             exc |-> IF op = "exists" THEN "None"
                                     ELSE local_s3_generate_presigned_url(uri),
                             adapter |-> a.id, client |-> 0]
               /\ UNCHANGED <<default_s3_client, clients_made, defaults_made,
                              fs_used>>
          ELSE /\ UseClient(a, ok)
               /\ fs_ret' =
                    [uri |-> uri, op |-> op,
                     exc |-> IF ClientOf(ok) = 0 THEN "ClientError"
                             ELSE IF op = "exists"
                                  THEN (IF raises THEN "ValueError" ELSE "None")
                             ELSE s3_generate_presigned_url(uri, raises).exc,
                     adapter |-> a.id, client |-> ClientOf(ok)]

\* FileSystemManager.exists(uri)
exists(uri) == \E ok, raises \in BOOLEAN : AdapterCall("exists", uri, ok, raises)

\* FileSystemManager.generate_presigned_url(uri)
generate_presigned_url(uri) ==
  \E ok, raises \in BOOLEAN : AdapterCall("generate_presigned_url", uri, ok, raises)

\* FileSystemManager.get_s3_client(config): with a config a client of its
\* own, without one the default client
get_s3_client(has_config) ==
  /\ fs_calls < MaxCalls
  /\ fs_calls' = fs_calls + 1
  /\ \E ok \in BOOLEAN :
       IF has_config
       THEN /\ clients_made' = IF ok THEN clients_made + 1 ELSE clients_made
            /\ fs_ret' = [uri |-> <<>>, op |-> "get_s3_client",
                          exc |-> IF ok THEN "None" ELSE "ClientError",
                          adapter |-> 0,
                          client |-> IF ok THEN clients_made + 1 ELSE 0]
            /\ UNCHANGED <<default_s3_client, defaults_made>>
       ELSE LET c == ClientOf(ok) IN
            /\ default_s3_client' = IF c = 0 THEN default_s3_client ELSE c
            /\ clients_made' = IF c = clients_made + 1 THEN c ELSE clients_made
            /\ defaults_made' = IF c = clients_made + 1 THEN defaults_made + 1
                                ELSE defaults_made
            /\ fs_ret' = [uri |-> <<>>, op |-> "get_s3_client",
                          exc |-> IF c = 0 THEN "ClientError" ELSE "None",
                          adapter |-> 0, client |-> c]
  /\ UNCHANGED <<fs_adapters, adapters_made, fs_got, fs_used>>
  /\ UNCHANGED <<rwVars, keep_blank, exVars, serVars, authVars>>

\* the rewriter at rest
RwIdle ==
  /\ sql_input = <<>>
  /\ limit = DefaultLimit
  /\ max_limit = DefaultMaxLimit
  /\ allow_multi_stmt = FALSE
  /\ keep_blank = FALSE
  /\ pc = "idle"
  /\ new_stmts = <<>>
  /\ ret = "None"
  /\ ret_again = NotAgain

InitFs == RwIdle /\ ExInit /\ FsInit /\ SerIdle /\ AuthIdle

NextFs ==
  \/ \E uri \in FsUris : get_fs(uri)
  \/ \E uri \in FsUris : exists(uri)
  \/ \E uri \in FsUris : generate_presigned_url(uri)
  \/ \E has_config \in BOOLEAN : get_s3_client(has_config)

SpecFs == InitFs /\ [][NextFs]_vars

\* ---------------------------------------------------------------------
\* C13
\* ---------------------------------------------------------------------

\* the adapters the cache holds
Cached == {k \in CacheKeys : fs_adapters[k] # NoAdapter}

\* C13: after any sequence of manager calls there is at most one adapter
\* per cache key (every adapter built is the cached one of its key and
\* get_fs has returned one instance per key) and at most one default
\* client, which is the client every S3 adapter (s3 and bos) has used
C13_OneAdapterOneClient ==
  /\ adapters_made = Cardinality(Cached)
  /\ \A g \in fs_got : fs_adapters[g[1]].id = g[2]
  /\ \A g, h \in fs_got : g[1] = h[1] => g[2] = h[2]
  /\ defaults_made <= 1
  /\ \A u \in fs_used : u[2] = default_s3_client /\ u[2] # 0

\* the s3 adapter and the bos adapter have both been used, with one client
C13_Witness ==
  /\ fs_calls = MaxCalls
  /\ fs_adapters["s3"] # NoAdapter
  /\ fs_adapters["bos"] # NoAdapter
  /\ \E c \in 1..MaxCalls : {<<"s3", c>>, <<"bos", c>>} \subseteq fs_used

\* ------------------------------------------------------------- settings
s3_prefixes == << <<"http">>, <<"bos">>, <<"s3">> >>
bucket_name == <<"llm-data-process">>
s3_default_prefix == <<"bos", ":", "/", "/">> \o bucket_name
medium_fields == <<"image", "images", "video", "videos", "audio", "audios">>
backup_fields ==
  <<"absolute_images", "absolute_image", "absolute_videos", "absolute_video",
    "absolute_audios", "absolute_audio">>
parse_json_fields ==
  medium_fields \o backup_fields
    \o <<"relative_image", "relative_video", "relative_audio",
         "conversations", "meta_data">>
src_root_fields == <<"src_root_path">>

In(x, seq) == \E k \in 1..Len(seq) : seq[k] = x

\* ------------------------------------------------------------- rows
\* The keys a row of the model can hold, in the order the row holds them.
\* An item of the batch is [isdict, f]: f maps every key to its value, or
\* to Absent.
Fields == <<"id", "image", "absolute_images", "src_root_path", "meta_data">>
FieldSet == {Fields[k] : k \in 1..Len(Fields)}

NotADict == [isdict |-> FALSE, f |-> [x \in FieldSet |-> Absent]]

\* item.keys()
RECURSIVE KeysFrom(_, _)
KeysFrom(item, k) ==
  IF k > Len(Fields) THEN <<>>
  ELSE (IF item.f[Fields[k]] = Absent THEN <<>> ELSE <<Fields[k]>>)
         \o KeysFrom(item, k + 1)
keys(item) == KeysFrom(item, 1)

\* the keys of ks that are in names, in the order of ks
RECURSIVE Among(_, _)
Among(ks, names) ==
  IF ks = <<>> THEN <<>>
  ELSE (IF In(Head(ks), names) THEN <<Head(ks)>> ELSE <<>>)
         \o Among(Tail(ks), names)

\* the first key of ks that is in names, "" if there is none
FirstAmong(ks, names) ==
  IF Among(ks, names) = <<>> THEN "" ELSE Head(Among(ks, names))

\* dict.get(key): None for a missing key
get(item, key) ==
  IF key \in FieldSet /\ item.f[key] # Absent THEN item.f[key] ELSE PyNone

\* bool(v)
Truthy(v) ==
  IF v.t = "str" THEN v.s # <<>>
  ELSE IF v.t \in {"list", "dict"} THEN v.l # <<>>
  ELSE IF v.t = "int" THEN v.n # 0
  ELSE FALSE

\* what a for loop over v.copy() visits: the items of a list, the keys of
\* a dict
Entries(v) ==
  IF v.t = "list" THEN v.l
  ELSE [k \in 1..(Len(v.l) \div 2) |-> v.l[2 * k - 1]]

\* any(abs_bos_url.startswith(s3_prefix) for s3_prefix in settings.s3_prefixes)
Prefixed(url) == \E k \in 1..Len(s3_prefixes) : startswith(url, s3_prefixes[k])

\* os.path.join(a, b) for a non-empty a
path_join(a, b) ==
  IF b # <<>> /\ b[1] = "/" THEN b
  ELSE IF a[Len(a)] = "/" THEN a \o b
  ELSE a \o <<"/">> \o b

\* ------------------------------------------------------ doris_data_2_json
\* variant: every value that is not a string is handed to json.loads,
\* which raises TypeError for it
DecodeField_loads_any(field_val) ==
  IF field_val.t = "str" THEN safe_json_loads(field_val)
  ELSE IF field_val.t \in {"none", "list"} THEN [exc |-> "None", v |-> field_val]
  ELSE [exc |-> "TypeError", v |-> PyNone]

\* lines 101-105 for one field: [exc, v]
DecodeField(field_val) ==
  IF field_val.t \notin {"none", "list"} THEN safe_json_loads(field_val)
  ELSE [exc |-> "None", v |-> field_val]

\* the first exception the decoding loop raises from field k on, r being
\* the decoding of field k
RECURSIVE DecodeExc(_, _)
DecodeExcAt(item, k, r) == IF r.exc # "None" THEN r.exc ELSE DecodeExc(item, k + 1)
DecodeExc(item, k) ==
  IF k > Len(parse_json_fields) THEN "None"
  ELSE DecodeExcAt(item, k, DecodeField(get(item, parse_json_fields[k])))

\* the row after the decoding loop
Decoded(item) ==
  [item EXCEPT !.f =
     [x \in FieldSet |->
        IF In(x, parse_json_fields) /\ item.f[x] # Absent
        THEN DecodeField(item.f[x]).v ELSE item.f[x]]]

\* lines 112-120, from entry k on: [exc, urls, asked]; asked = the uris
\* handed to fs_manager.generate_presigned_url, in call order
RECURSIVE SignPrimary(_, _, _, _, _, _, _)
SignPrimary(entries, k, item, src_root_path, fails, presigned_urls, asked) ==
  IF k > Len(entries) THEN [exc |-> "None", urls |-> presigned_urls, asked |-> asked]
  ELSE
    LET abs_bos_url == entries[k]
        root == IF src_root_path = "" THEN Absent ELSE item.f[src_root_path]
        rooted == abs_bos_url.t = "str" /\ ~Prefixed(abs_bos_url.s)
                    /\ src_root_path # ""
        joins == rooted /\ root # Absent /\ Truthy(root)
        uri == IF joins /\ root.t = "str" THEN path_join(root.s, abs_bos_url.s)
               ELSE abs_bos_url.s
        signed == generate_presigned_url_of(uri, fails) IN
    IF abs_bos_url.t # "str"
    THEN [exc |-> "AttributeError", urls |-> <<>>, asked |-> asked]
    ELSE IF rooted /\ root = Absent
    THEN [exc |-> "KeyError", urls |-> <<>>, asked |-> asked]
    ELSE IF joins /\ root.t # "str"
    THEN [exc |-> "TypeError", urls |-> <<>>, asked |-> asked]
    ELSE IF signed.exc = "ValueError"
    THEN SignPrimary(entries, k + 1, item, src_root_path, fails, presigned_urls,
                     Append(asked, uri))
    ELSE IF signed.exc # "None"
    THEN [exc |-> signed.exc, urls |-> <<>>, asked |-> Append(asked, uri)]
    ELSE SignPrimary(entries, k + 1, item, src_root_path, fails,
                     IF signed.url # <<>> THEN Append(presigned_urls, PyStr(signed.url))
                     ELSE presigned_urls,
                     Append(asked, uri))

\* lines 125-132, from entry k on: [exc, urls, asked]
RECURSIVE SignBackup(_, _, _, _, _)
SignBackup(entries, k, fails, presigned_urls, asked) ==
  IF k > Len(entries) THEN [exc |-> "None", urls |-> presigned_urls, asked |-> asked]
  ELSE
    LET abs_bos_url == entries[k]
        uri == IF Prefixed(abs_bos_url.s) THEN abs_bos_url.s
               ELSE s3_default_prefix \o abs_bos_url.s
        signed == generate_presigned_url_of(uri, fails) IN
    IF abs_bos_url.t # "str"
    THEN [exc |-> "AttributeError", urls |-> <<>>, asked |-> asked]
    ELSE IF signed.exc = "ValueError"
    THEN SignBackup(entries, k + 1, fails, presigned_urls, Append(asked, uri))
    ELSE IF signed.exc # "None"
    THEN [exc |-> signed.exc, urls |-> <<>>, asked |-> Append(asked, uri)]
    ELSE SignBackup(entries, k + 1, fails,
                    IF signed.url # <<>> THEN Append(presigned_urls, PyStr(signed.url))
                    ELSE presigned_urls,
                    Append(asked, uri))

\* v.copy() exists
HasCopy(v) == v.t \in {"list", "dict"}

\* variant: the medium field is assigned the list of urls even when the
\* list is empty
SignField_always_assigns(item, medium_field, src_root_path, backup_medium_field, fails) ==
  LET value == get(item, medium_field)
      first == SignPrimary(Entries(value), 1, item, src_root_path, fails, <<>>, <<>>)
      backup == IF backup_medium_field = "" THEN Absent
                ELSE item.f[backup_medium_field]
      second == SignBackup(Entries(backup), 1, fails, <<>>, first.asked)
      Put(urls) == [item EXCEPT !.f[medium_field] = PyList(urls)]
      Out(exc, it, asked) == [exc |-> exc, item |-> it, asked |-> asked] IN
  IF ~HasCopy(value) THEN Out("AttributeError", item, <<>>)
  ELSE IF first.exc # "None" THEN Out(first.exc, item, first.asked)
  ELSE IF first.urls # <<>> THEN Out("None", Put(first.urls), first.asked)
  ELSE IF backup_medium_field = "" THEN Out("None", Put(<<>>), first.asked)
  ELSE IF backup = Absent THEN Out("KeyError", item, first.asked)
  ELSE IF ~Truthy(backup) THEN Out("None", Put(<<>>), first.asked)
  ELSE IF ~HasCopy(backup) THEN Out("AttributeError", item, first.asked)
  ELSE IF second.exc # "None" THEN Out(second.exc, item, second.asked)
  ELSE Out("None", Put(second.urls), second.asked)

\* line 134, and what one medium field gives
Put(item, medium_field, urls) ==
  IF urls = <<>> THEN item ELSE [item EXCEPT !.f[medium_field] = PyList(urls)]
Out(exc, item, asked) == [exc |-> exc, item |-> item, asked |-> asked]

\* lines 122-134: first is what the entries of the field gave (no url),
\* second what the entries of the backup field give
SignFieldBackup(item, medium_field, backup, first, second) ==
  IF backup = Absent THEN Out("KeyError", item, first.asked)
  ELSE IF ~Truthy(backup) THEN Out("None", item, first.asked)
  ELSE IF ~HasCopy(backup) THEN Out("AttributeError", item, first.asked)
  ELSE IF second.exc # "None" THEN Out(second.exc, item, second.asked)
  ELSE Out("None", Put(item, medium_field, second.urls), second.asked)

\* lines 109-134: value is the field, first what its entries give
SignFieldPrimary(item, medium_field, backup_medium_field, fails, value, first) ==
  IF ~HasCopy(value) THEN Out("AttributeError", item, <<>>)
  ELSE IF first.exc # "None" THEN Out(first.exc, item, first.asked)
  ELSE IF first.urls # <<>>
  THEN Out("None", Put(item, medium_field, first.urls), first.asked)
  ELSE IF backup_medium_field = "" THEN Out("None", item, first.asked)
  ELSE SignFieldBackup(item, medium_field, item.f[backup_medium_field], first,
                       SignBackup(Entries(item.f[backup_medium_field]), 1, fails,
                                  <<>>, first.asked))

\* lines 109-134 for one medium field: [exc, item, asked]
SignField(item, medium_field, src_root_path, backup_medium_field, fails) ==
  SignFieldPrimary(item, medium_field, backup_medium_field, fails,
                   get(item, medium_field),
                   SignPrimary(Entries(get(item, medium_field)), 1, item,
                               src_root_path, fails, <<>>, <<>>))

\* lines 107-134, from medium field k on: [exc, item, asked]; r is what
\* field k gives
RECURSIVE SignFields(_, _, _, _, _, _, _)
SignFieldsAt(r, exist_medium_fields, k, src_root_path, backup_medium_field, fails, asked) ==
  IF r.exc # "None" THEN [r EXCEPT !.asked = asked \o r.asked]
  ELSE SignFields(r.item, exist_medium_fields, k + 1, src_root_path,
                  backup_medium_field, fails, asked \o r.asked)
SignFields(item, exist_medium_fields, k, src_root_path, backup_medium_field, fails, asked) ==
  IF k > Len(exist_medium_fields) THEN [exc |-> "None", item |-> item, asked |-> asked]
  ELSE SignFieldsAt(SignField(item, exist_medium_fields[k], src_root_path,
                              backup_medium_field, fails),
                    exist_medium_fields, k, src_root_path, backup_medium_field,
                    fails, asked)

\* variant: processed_item is the row itself
copy_is_alias(item) == [value |-> item, shared |-> TRUE]
\* item.copy() (line 100): a new dict with the entries of item; shared =
\* the new dict is item itself, so that a write to one is a write to both
copy(item) == [value |-> item, shared |-> FALSE]

\* lines 100-134 for one dict item: [exc, item, asked]; exc is what the
\* decoding loop raises
MaterializeAfter(exc, item, exist_medium_fields, src_root_path, backup_medium_field, fails) ==
  IF exc # "None" THEN [exc |-> exc, item |-> item, asked |-> <<>>]
  ELSE SignFields(Decoded(item), exist_medium_fields, 1, src_root_path,
                  backup_medium_field, fails, <<>>)
Materialize(item, exist_medium_fields, src_root_path, backup_medium_field, fails) ==
  MaterializeAfter(DecodeExc(copy(item).value, 1), copy(item).value,
                   exist_medium_fields, src_root_path, backup_medium_field, fails)

\* the uris asked for row i
AskedOf(i, uris) == [k \in 1..Len(uris) |-> [row |-> i, uri |-> uris[k]]]

\* variant: a row whose materialization raises is left out and the loop
\* goes on with the next one
RECURSIVE Loop_skips_fault(_, _, _, _, _, _, _, _)
Loop_skips_fault(raw, i, exist_medium_fields, src_root_path, backup_medium_field, fails, data, asked) ==
  IF i > Len(raw) THEN [fault |-> 0, data |-> data, asked |-> asked]
  ELSE LET r == Materialize(raw[i], exist_medium_fields, src_root_path,
                            backup_medium_field, fails)
           rest == Loop_skips_fault(raw, i + 1, exist_medium_fields,
                                    src_root_path, backup_medium_field, fails,
                                    IF raw[i].isdict /\ r.exc = "None"
                                    THEN Append(data, r.item) ELSE data,
                                    IF raw[i].isdict
                                    THEN asked \o AskedOf(i, r.asked) ELSE asked) IN
       IF raw[i].isdict /\ r.exc # "None"
       THEN [rest EXCEPT !.fault = i]
       ELSE rest

\* lines 94-145, from item i on: [fault, data, asked]; fault = the item
\* whose materialization raised, which ends the loop; r is what item i
\* gives
RECURSIVE Loop(_, _, _, _, _, _, _, _)
LoopAt(r, raw, i, exist_medium_fields, src_root_path, backup_medium_field, fails, data, asked) ==
  IF r.exc # "None"
  THEN [fault |-> i, data |-> data, asked |-> asked \o AskedOf(i, r.asked)]
  ELSE Loop(raw, i + 1, exist_medium_fields, src_root_path,
            backup_medium_field, fails, Append(data, r.item),
            asked \o AskedOf(i, r.asked))
Loop(raw, i, exist_medium_fields, src_root_path, backup_medium_field, fails, data, asked) ==
  IF i > Len(raw) THEN [fault |-> 0, data |-> data, asked |-> asked]
  ELSE IF ~raw[i].isdict
       THEN Loop(raw, i + 1, exist_medium_fields, src_root_path,
                 backup_medium_field, fails, data, asked)
  ELSE LoopAt(Materialize(raw[i], exist_medium_fields, src_root_path,
                          backup_medium_field, fails),
              raw, i, exist_medium_fields, src_root_path, backup_medium_field,
              fails, data, asked)

\* lines 81-92 and the loop: ks are the keys of the first item
LoopOver(raw, ks, fails) ==
  Loop(raw, 1, Among(ks, medium_fields), FirstAmong(ks, src_root_fields),
       FirstAmong(ks, backup_fields), fails, <<>>, <<>>)
Returned2Json(r) ==
  [exc |-> "None", fault |-> r.fault, data |-> r.data, asked |-> r.asked]

\* doris_data_2_json(raw_data): [exc, fault, data, asked]
DorisData2Json(raw, fails) ==
  IF raw = <<>> THEN [exc |-> "None", fault |-> 0, data |-> <<>>, asked |-> <<>>]
  ELSE IF ~raw[1].isdict
       THEN \* raw_data[0].keys()
            [exc |-> "AttributeError", fault |-> 0, data |-> <<>>, asked |-> <<>>]
  ELSE Returned2Json(LoopOver(raw, keys(raw[1]), fails))

\* the row the caller holds once the loop is through with it: what is
\* written to processed_item reaches it only when the two share the dict.
\* The lists held in a row are read (line 110: a copy of the list is
\* iterated) and never written.
ItemAfter(item, exist_medium_fields, src_root_path, backup_medium_field, fails) ==
  IF copy(item).shared
  THEN Materialize(item, exist_medium_fields, src_root_path, backup_medium_field,
                   fails).item
  ELSE item

\* the caller's list after the call that gave r
RawAfter(raw, r, fails) ==
  [i \in 1..Len(raw) |->
     IF r.exc = "None" /\ raw[i].isdict /\ (r.fault = 0 \/ i <= r.fault)
     THEN ItemAfter(raw[i], Among(keys(raw[1]), medium_fields),
                    FirstAmong(keys(raw[1]), src_root_fields),
                    FirstAmong(keys(raw[1]), backup_fields), fails)
     ELSE raw[i]]

\* ------------------------------------------------- materializer inputs
MaxRows == 3
MaxEntries == 2
MaxItems == 2

BosKey == <<"bos", ":", "/", "/", "bucket", "/", "key">>
BosDir == <<"bos", ":", "/", "/", "bucket", "/", "dir">>

\* the entries of a medium list
EntryPool ==
  { PyStr(BosKey),
    PyStr(<<"http", ":", "/", "/", "bucket", "/", "key">>),
    PyStr(<<"key">>),
    PyStr(<<"/", "key">>),
    PyStr(<<"s3", "_x", "/", "key">>),
    PyStr(<<"S3", ":", "/", "/", "bucket", "/", "key">>),
    PyStr(<<"bos", ":", "/", "/", "bucket">>),
    PyInt(1) }

\* the sequences over S of length n, and of length at most n
RECURSIVE SeqsOfLen(_, _)
SeqsOfLen(S, n) ==
  IF n = 0 THEN {<<>>}
  ELSE {Append(q, x) : q \in SeqsOfLen(S, n - 1), x \in S}
SeqsUpTo(S, n) == UNION {SeqsOfLen(S, k) : k \in 0..n}

\* a string literal holding the text body
Quoted(q, body) ==
  <<q>> \o [k \in 1..Len(body) |-> IF body[k] = DQ THEN BSDQ ELSE body[k]] \o <<q>>

\* json.dumps / str of a list of strings, with quote q
RECURSIVE ItemsText(_, _)
ItemsText(strs, q) ==
  IF strs = <<>> THEN <<>>
  ELSE Quoted(q, Head(strs)) \o (IF Len(strs) > 1 THEN <<",", SP>> ELSE <<>>)
         \o ItemsText(Tail(strs), q)
ListText(strs, q) == <<"[">> \o ItemsText(strs, q) \o <<"]">>

Row(image, absolute_images, src_root, meta_data) ==
  [isdict |-> TRUE,
   f |-> [x \in FieldSet |->
            IF x = "id" THEN PyInt(1)
            ELSE IF x = "image" THEN image
            ELSE IF x = "absolute_images" THEN absolute_images
            ELSE IF x = "src_root_path" THEN src_root
            ELSE meta_data]]

MetaText == PyStr(<<"{", DQ, "key", DQ, ":", SP, "1", "}">>)

\* one row in every combination of medium list, backup value and root
ImageValues == {PyList(l) : l \in SeqsUpTo(EntryPool, MaxEntries)}
BackupValues ==
  { Absent, PyNone, PyList(<<>>),
    PyList(<<PyStr(BosKey)>>),
    PyList(<<PyStr(<<"/", "key">>), PyStr(<<"dir", "/", "key">>)>>),
    PyList(<<PyStr(<<"http", ":", "/", "/", "bucket", "/", "key">>)>>),
    PyStr(ListText(<<BosKey>>, SQ)),
    PyStr(<<"key">>) }
RootValues == {Absent, PyNone, PyStr(<<>>), PyStr(BosDir)}

SingleRows ==
  {Row(i, b, r, MetaText) : i \in ImageValues, b \in BackupValues, r \in RootValues}

\* batches of rows that decode, sign, drop an entry, or fault
RowPool ==
  { Row(PyList(<<PyStr(BosKey)>>), Absent, Absent, Absent),
    Row(PyStr(ListText(<<BosKey>>, DQ)), Absent, Absent, MetaText),
    Row(PyStr(BosKey), Absent, Absent, Absent),
    Row(PyList(<<PyStr(BosKey)>>), Absent, Absent, PyStr(<<"key">>)),
    Row(PyList(<<PyStr(BosKey)>>), Absent, Absent, PyStr(<<"{", "[", "1", "]", ":", "2", "}">>)),
    Row(PyList(<<PyStr(<<"S3", ":", "/", "/", "bucket", "/", "key">>), PyStr(BosKey)>>),
        Absent, Absent, Absent),
    Row(PyList(<<PyStr(<<"http", ":", "/", "/", "bucket", "/", "key">>), PyStr(BosKey)>>),
        Absent, Absent, Absent),
    Row(Absent, Absent, Absent, MetaText),
    NotADict }

SerInputs == SeqsUpTo(RowPool, MaxRows) \cup {<<r>> : r \in SingleRows}

\* what the call leaves: the rows, the exception, the faulting item, the
\* uris asked for
Leaves(r) ==
  /\ processed_data' = r.data
  /\ ser_exc' = r.exc
  /\ fault_at' = r.fault
  /\ ser_asked' = r.asked

\* the call of doris_data_2_json
doris_data_2_json ==
  /\ ser_pc = "call"
  /\ Leaves(DorisData2Json(raw_data, client_fails))
  /\ raw_after' = RawAfter(raw_data, DorisData2Json(raw_data, client_fails), client_fails)
  /\ ser_pc' = "done"
  /\ UNCHANGED <<raw_data, client_fails, field_value, parsed_field_value>>
  /\ UNCHANGED <<rwVars, keep_blank, exVars, fsVars, authVars>>

InitSer ==
  /\ AuthIdle
  /\ RwIdle /\ ExInit /\ FsInit
  /\ raw_data \in SerInputs
  /\ raw_after = raw_data
  /\ client_fails \in BOOLEAN
  /\ ser_pc = "call"
  /\ processed_data = <<>>
  /\ ser_exc = "None"
  /\ fault_at = 0
  /\ ser_asked = <<>>
  /\ field_value = <<>>
  /\ parsed_field_value = <<>>

NextSer == doris_data_2_json

SpecSer == InitSer /\ [][NextSer]_vars

\* ---------------------------------------------------------------------
\* C14 .. C19: the batch of SpecSer
\* ---------------------------------------------------------------------

\* the call has returned (it did not raise)
SerReturned == ser_pc = "done" /\ ser_exc = "None"

\* what the first row says about the batch
MediumOfBatch == Among(keys(raw_data[1]), medium_fields)
RootOfBatch == FirstAmong(keys(raw_data[1]), src_root_fields)
BackupOfBatch == FirstAmong(keys(raw_data[1]), backup_fields)

\* row j on its own: what its materialization gives or raises
Alone14(j) ==
  Materialize(raw_data[j], MediumOfBatch, RootOfBatch, BackupOfBatch,
              client_fails)
RowFaults(j) == raw_data[j].isdict /\ Alone14(j).exc # "None"

\* the materialized rows from j up to i - 1
RECURSIVE MaterializedFrom(_, _)
MaterializedFrom(j, i) ==
  IF j >= i THEN <<>>
  ELSE (IF raw_data[j].isdict THEN <<Alone14(j).item>> ELSE <<>>)
         \o MaterializedFrom(j + 1, i)

\* the first row whose materialization raises
IsFirstFault(i) ==
  i \in 1..Len(raw_data) /\ RowFaults(i) /\ \A j \in 1..(i - 1) : ~RowFaults(j)

Undecodable(v) ==
  /\ v.t = "str"
  /\ json_loads(v.s).exc # "None"
  /\ json_loads(FixValues(FixKeys(v.s, 1), 1)).exc # "None"
  /\ (~LooksLikeContainer(v.s) \/ literal_eval(v.s).exc # "None")

\* row j with field x holding an empty list instead
RowWithout(j, x) == [raw_data[j] EXCEPT !.f[x] = PyList(<<>>)]

\* nothing but field x can make the materialization of row j raise
OnlyCause(j, x) ==
  Materialize(RowWithout(j, x), MediumOfBatch, RootOfBatch, BackupOfBatch,
              client_fails).exc = "None"

\* the place of row j in the result when no row up to j faults
RECURSIVE Pos(_)
Pos(j) == IF j = 0 THEN 0 ELSE Pos(j - 1) + (IF raw_data[j].isdict THEN 1 ELSE 0)

\* row j was returned
RowReturned(j) == fault_at # j /\ Len(processed_data) >= Pos(j)

\* row j has an undecodable JSON-eligible field x and nothing else that
\* could raise, and no row before it faults
UndecodableAt(j, x) ==
  /\ raw_data[j].isdict
  /\ In(x, parse_json_fields)
  /\ Undecodable(raw_data[j].f[x])
  /\ OnlyCause(j, x)
  /\ \A k \in 1..(j - 1) : ~RowFaults(k)

\* C15: a JSON-eligible field that none of the decoding strategies decodes
\* keeps its original string value, and the row that holds it is
\* materialized and returned: it does not end the batch
C15_UndecodableKept ==
  SerReturned =>
    \A j \in 1..Len(raw_data) : \A x \in FieldSet :
      UndecodableAt(j, x) =>
        /\ RowReturned(j)
        /\ processed_data[Pos(j)].f[x] = raw_data[j].f[x]

\* ---------------------------------------------------------------------
\* C16: an entry that cannot be signed
\* ---------------------------------------------------------------------

AllStr(v) == v.t = "list" /\ \A k \in 1..Len(v.l) : v.l[k].t = "str"

\* the value of field x of row j after JSON decoding
DecodedAt(j, x) == Decoded(raw_data[j]).f[x]

\* in row j nothing but the signing of an entry can raise: the fields
\* decode, every medium and backup field is a list of strings (or an empty
\* backup), the root path is a string or empty
SigningOnly(j) ==
  /\ raw_data[j].isdict
  /\ DecodeExc(raw_data[j], 1) = "None"
  /\ MediumOfBatch # <<>>
  /\ \A k \in 1..Len(MediumOfBatch) : AllStr(DecodedAt(j, MediumOfBatch[k]))
  /\ RootOfBatch # "" =>
       LET root == DecodedAt(j, RootOfBatch) IN
       root # Absent /\ (Truthy(root) => root.t = "str")
  /\ BackupOfBatch # "" =>
       LET backup == DecodedAt(j, BackupOfBatch) IN
       backup # Absent /\ (Truthy(backup) => AllStr(backup))

\* the signing attempts made for row j
AskedFor(j) == SelectSeq(ser_asked, LAMBDA a : a.row = j)

\* the number of entries in the medium fields of row j
RECURSIVE EntryCount(_, _)
EntryCount(j, k) ==
  IF k > Len(MediumOfBatch) THEN 0
  ELSE Len(DecodedAt(j, MediumOfBatch[k]).l) + EntryCount(j, k + 1)

\* signing uri fails, whatever the exception
SignFails(uri) == generate_presigned_url_of(uri, client_fails).exc # "None"

\* the uri under which an entry of row j is signed: joined onto the root
\* path of the row when the entry has none of the configured prefixes
UriOf(j, entry) ==
  LET root == IF RootOfBatch = "" THEN Absent ELSE DecodedAt(j, RootOfBatch) IN
  IF ~Prefixed(entry) /\ root # Absent /\ Truthy(root)
  THEN path_join(root.s, entry) ELSE entry

\* some entry of row j fails to sign
SomeSignFails(j) ==
  \E k \in 1..Len(MediumOfBatch) :
    \E e \in 1..Len(DecodedAt(j, MediumOfBatch[k]).l) :
      SignFails(UriOf(j, DecodedAt(j, MediumOfBatch[k]).l[e].s))

\* C16: when the signing of an entry fails, whatever the failure, only
\* that entry is dropped: every entry of the row still gets its signing
\* attempt and the row is returned, so the batch goes on
C16_SignFailureDropsEntry ==
  SerReturned =>
    \A j \in 1..Len(raw_data) :
      (SigningOnly(j) /\ SomeSignFails(j) /\ \A k \in 1..(j - 1) : ~RowFaults(k)) =>
        /\ RowReturned(j)
        /\ Len(AskedFor(j)) >= EntryCount(j, 1)

\* ---------------------------------------------------------------------
\* C17: the backup field
\* ---------------------------------------------------------------------

\* every entry of medium field x of row j fails to sign
AllPrimaryFail(j, x) ==
  \A e \in 1..Len(DecodedAt(j, x).l) : SignFails(UriOf(j, DecodedAt(j, x).l[e].s))

\* the uri under which a backup entry is signed
BackupUri(entry) == IF Prefixed(entry) THEN entry ELSE s3_default_prefix \o entry

\* the signed urls of the backup entries from k on, in order
RECURSIVE SignedBackup(_, _)
SignedBackup(entries, k) ==
  IF k > Len(entries) THEN <<>>
  ELSE LET signed == generate_presigned_url_of(BackupUri(entries[k].s), client_fails) IN
       (IF signed.exc = "None" THEN <<PyStr(signed.url)>> ELSE <<>>)
         \o SignedBackup(entries, k + 1)

SignedBackupOf(j) ==
  IF BackupOfBatch = "" THEN <<>>
  ELSE SignedBackup(Entries(DecodedAt(j, BackupOfBatch)), 1)

\* the entries of medium field x of row j all fail to sign and some backup
\* entry signs
FallsBack(j, x) ==
  /\ SigningOnly(j)
  /\ In(x, medium_fields) /\ raw_data[1].f[x] # Absent
  /\ AllPrimaryFail(j, x)
  /\ SignedBackupOf(j) # <<>>
  /\ \A k \in 1..(j - 1) : ~RowFaults(k)

\* C17: when every entry of the primary medium field fails to sign and
\* some entry of the backup field signs, the row is returned with the
\* medium field holding the signed urls of the backup entries, in order
C17_BackupFallback ==
  SerReturned =>
    \A j \in 1..Len(raw_data) : \A x \in FieldSet :
      FallsBack(j, x) =>
        /\ RowReturned(j)
        /\ processed_data[Pos(j)].f[x] = PyList(SignedBackupOf(j))

\* ---------------------------------------------------------------------
\* C18: what the signing step writes
\* ---------------------------------------------------------------------

\* row j is in the result
Materialized(j) ==
  /\ raw_data[j].isdict
  /\ RowReturned(j)
  /\ \A k \in 1..(j - 1) : ~RowFaults(k)

\* the urls produced by the signing attempts for row j
UrlsFor(j) ==
  { PyStr(generate_presigned_url_of(a.uri, client_fails).url) :
      a \in { b \in {AskedFor(j)[k] : k \in 1..Len(AskedFor(j))} :
                ~SignFails(b.uri) } }

\* C18: in a returned row a medium field differs from its value before
\* signing only by holding a non-empty list of urls signed for that row,
\* it keeps that value when no url was produced, and every other field
\* keeps its value
C18_OverwriteOnlyWithUrls ==
  SerReturned =>
    \A j \in 1..Len(raw_data) : Materialized(j) =>
      \A x \in FieldSet :
        LET before == DecodedAt(j, x)
            after == processed_data[Pos(j)].f[x] IN
        /\ ~In(x, medium_fields) => after = before
        /\ UrlsFor(j) = {} => after = before
        /\ after # before =>
             /\ after.t = "list" /\ after.l # <<>>
             /\ \A k \in 1..Len(after.l) : after.l[k] \in UrlsFor(j)

\* a returned row whose entries were all asked for and none signed: the
\* medium field still holds its list of entries
C18_Witness ==
  /\ SerReturned
  /\ \E j \in 1..Len(raw_data) :
       /\ Materialized(j)
       /\ AskedFor(j) # <<>>
       /\ UrlsFor(j) = {}
       /\ DecodedAt(j, "image").t = "list" /\ DecodedAt(j, "image").l # <<>>
       /\ processed_data[Pos(j)].f["image"] = DecodedAt(j, "image")

\* ---------------------------------------------------------------------
\* C19: joining an entry onto the root path
\* ---------------------------------------------------------------------

\* entry starts with one of the configured schemes followed by ://
HasScheme(entry) ==
  \E k \in 1..Len(s3_prefixes) :
    startswith(entry, s3_prefixes[k] \o URI_SCHEME_SEPARATOR)

\* row j has a non-empty root path
RootPresent(j) == RootOfBatch # "" /\ Truthy(DecodedAt(j, RootOfBatch))

\* C19: an entry of a medium field is signed under the root path joined
\* with the entry when it has no scheme and the row has a non-empty root
\* path, and under the entry itself otherwise
C19_JoinedIff ==
  SerReturned =>
    \A j \in 1..Len(raw_data) :
      (SigningOnly(j) /\ \A k \in 1..(j - 1) : ~RowFaults(k)) =>
        LET entries == DecodedAt(j, MediumOfBatch[1]).l IN
        \A e \in 1..Len(entries) :
          e <= Len(AskedFor(j)) =>
            AskedFor(j)[e].uri =
              IF ~HasScheme(entries[e].s) /\ RootPresent(j)
              THEN path_join(DecodedAt(j, RootOfBatch).s, entries[e].s)
              ELSE entries[e].s

\* =====================================================================
\* JSON field decoding, applied to one field again and again
\* =====================================================================
\* The decoding loop of doris_data_2_json (lines 101-105) on one field:
\* field_value is the value the row came with, parsed_field_value the
\* values the field held after each decoding, a result being decoded
\* again as the field of a row that is handed back to the loop.

MaxDecodes == 2

\* json.dumps(v)
RECURSIVE dumps(_)
RECURSIVE DumpItems(_, _)
RECURSIVE DumpPairs(_, _)
dumps(v) ==
  IF v.t = "int" THEN <<IF v.n = 1 THEN "1" ELSE "2">>
  ELSE IF v.t = "none" THEN <<"null">>
  ELSE IF v.t = "str" THEN Quoted(DQ, v.s)
  ELSE IF v.t = "list" THEN <<"[">> \o DumpItems(v.l, 1) \o <<"]">>
  ELSE <<"{">> \o DumpPairs(v.l, 1) \o <<"}">>
DumpItems(l, k) ==
  IF k > Len(l) THEN <<>>
  ELSE dumps(l[k]) \o (IF k < Len(l) THEN <<",", SP>> ELSE <<>>)
         \o DumpItems(l, k + 1)
DumpPairs(kv, k) ==
  IF k > Len(kv) THEN <<>>
  ELSE dumps(kv[k]) \o <<":", SP>> \o dumps(kv[k + 1])
         \o (IF k + 1 < Len(kv) THEN <<",", SP>> ELSE <<>>)
         \o DumpPairs(kv, k + 2)

JsonAtoms == {PyInt(1), PyInt(2), PyNone, PyStr(<<"key">>)}
JsonLists == {PyList(l) : l \in SeqsUpTo(JsonAtoms, MaxItems)}
JsonDicts == {PyDict(<<PyStr(<<"key">>), a>>) : a \in JsonAtoms}
\* valid JSON texts, and JSON string literals that hold such a text
JsonTexts == {dumps(v) : v \in JsonAtoms \cup JsonLists \cup JsonDicts}
JsonLiterals == {Quoted(DQ, t) : t \in JsonTexts}
\* texts that are not JSON
OtherTexts ==
  { <<"[", "1">>, <<"key">>, ListText(<<BosKey>>, SQ),
    <<"{", "[", "1", "]", ":", "2", "}">> }

\* what a JSON-eligible field of a row may hold
JsonInputs ==
  JsonLists \cup JsonDicts \cup {PyNone, PyInt(1)}
    \cup {PyStr(t) : t \in JsonTexts \cup JsonLiterals \cup OtherTexts}

\* the value the field holds now
FieldNow ==
  IF parsed_field_value = <<>> THEN field_value
  ELSE parsed_field_value[Len(parsed_field_value)]

\* lines 102-105 on the field
decode_field ==
  /\ ser_pc = "decode"
  /\ Len(parsed_field_value) < MaxDecodes
  /\ LET r == DecodeField(FieldNow) IN
       IF r.exc = "None"
       THEN /\ parsed_field_value' = Append(parsed_field_value, r.v)
            /\ UNCHANGED <<ser_pc, ser_exc>>
       ELSE /\ ser_exc' = r.exc
            /\ ser_pc' = "raised"
            /\ UNCHANGED parsed_field_value
  /\ UNCHANGED <<raw_data, raw_after, client_fails, processed_data, fault_at, ser_asked,
                 field_value>>
  /\ UNCHANGED <<rwVars, keep_blank, exVars, fsVars, authVars>>

InitJson ==
  /\ RwIdle /\ ExInit /\ FsInit /\ AuthIdle
  /\ raw_data = <<>>
  /\ raw_after = <<>>
  /\ client_fails = FALSE
  /\ ser_pc = "decode"
  /\ processed_data = <<>>
  /\ ser_exc = "None"
  /\ fault_at = 0
  /\ ser_asked = <<>>
  /\ field_value \in JsonInputs
  /\ parsed_field_value = <<>>

NextJson == decode_field

SpecJson == InitJson /\ [][NextJson]_vars

\* ---------------------------------------------------------------------
\* C20: decoding twice
\* ---------------------------------------------------------------------

\* the field came as a string that json.loads accepts
ValidJson == field_value.t = "str" /\ json_loads(field_value.s).exc = "None"

\* the field was decoded n times
DecodedTimes(n) == ser_pc = "decode" /\ Len(parsed_field_value) = n

\* C20: decoding a field that is already a list leaves it unchanged, and
\* decoding the result of decoding a valid JSON string gives the same
\* value as decoding the string once
C20_DecodeIdempotent ==
  /\ (field_value.t = "list" /\ Len(parsed_field_value) >= 1) =>
       parsed_field_value[1] = field_value
  /\ (ValidJson /\ Len(parsed_field_value) >= 1) =>
       /\ ser_pc # "raised"
       /\ DecodedTimes(2) => parsed_field_value[2] = parsed_field_value[1]

\* C20, amended: decoding a field that is already a list leaves it
\* unchanged, and decoding the result of decoding a valid JSON string gives
\* the same value as decoding the string once when that value is not a
\* string
C20_DecodeIdempotentOnStructures ==
  /\ (field_value.t = "list" /\ Len(parsed_field_value) >= 1) =>
       parsed_field_value[1] = field_value
  /\ (ValidJson /\ Len(parsed_field_value) >= 1
        /\ parsed_field_value[1].t # "str") =>
       /\ ser_pc # "raised"
       /\ DecodedTimes(2) => parsed_field_value[2] = parsed_field_value[1]

\* the text of a two-item list was decoded twice
C20_Witness ==
  /\ ValidJson
  /\ DecodedTimes(2)
  /\ parsed_field_value[1].t = "list" /\ Len(parsed_field_value[1].l) = 2
  /\ parsed_field_value[2] = parsed_field_value[1]

\* ---------------------------------------------------------------------
\* C21, C22: the result of _sync_execute_sql
\* ---------------------------------------------------------------------

\* request r holds the result dict of _sync_execute_sql
HasResult(r) == req[r].result # NoResult

\* the status of a result: its code and message
StatusOf(r) == <<req[r].result.code, req[r].result.message>>

\* a read was executed and returned no row / some row; any execution failed
EmptyRead(r) ==
  HasResult(r) /\ req[r].result.code = 0 /\ req[r].result.data = Rows(<<>>)
NonEmptyRead(r) ==
  /\ HasResult(r) /\ req[r].result.code = 0
  /\ req[r].result.data.kind = "rows" /\ req[r].result.data.rows # <<>>
ExecFailed(r) == HasResult(r) /\ req[r].result.code # 0

\* C21: the status of a read that succeeded with zero rows differs from
\* the status of a read that succeeded with rows and from the status of
\* every failed execution
C21_NoRowsStatus ==
  \A r1, r2 \in Reqs :
    (EmptyRead(r1) /\ (NonEmptyRead(r2) \/ ExecFailed(r2))) =>
      StatusOf(r1) # StatusOf(r2)

\* the leading keyword of the safe SQL of request r: its first token that
\* is neither whitespace nor a comment ("None" when there is none)
LeadingKeyword(r) ==
  IF req[r].safe = <<>> \/ NextReal(req[r].safe[1], 0) = 0 THEN "None"
  ELSE Upper(req[r].safe[1][NextReal(req[r].safe[1], 0)].value)

WriteStyle(r) == LeadingKeyword(r) \in {"INSERT", "UPDATE", "DELETE", "ALTER"}
ReadStyle(r) == LeadingKeyword(r) \in {"SELECT", "SHOW", "DESCRIBE", "DESC"}

\* the statement of request r was handed to connection.execute
Executed(r) == \E s \in sent : s.req = r

\* a message that is a row count
IsCount(m) == \E rows \in RowSets : m = ToString(Len(rows))

\* C22: a write-style statement is handled as a write (when it succeeds it
\* is committed and its result carries the affected-row count and no row
\* data, when it fails the result is the write failure), a read-style
\* statement as a read (never committed, its result carries the rows)
C22_ClassifiedByKeyword ==
  \A r \in Reqs : HasResult(r) =>
    /\ Executed(r)
    /\ WriteStyle(r) =>
         /\ req[r].result.data = NoData
         /\ req[r].result.code \in {0, 59402}
         /\ req[r].result.code = 0 =>
              r \in committed /\ IsCount(req[r].result.message)
    /\ ReadStyle(r) =>
         /\ r \notin committed
         /\ req[r].result.code \in {0, 59403}
         /\ req[r].result.code = 0 => req[r].result.data.kind = "rows"

\* ---------------------------------------------------------------------
\* C23, C24: the adapter a URI is routed to
\* ---------------------------------------------------------------------

\* the scheme a URI is written with, in lower case ("" when it has none)
SchemeOf(uri) ==
  IF Len(uri) >= 4 /\ SubSeq(uri, 2, 4) = URI_SCHEME_SEPARATOR
  THEN lower(<<uri[1]>>)[1] ELSE ""

\* what follows the scheme
AfterScheme(uri) == IF SchemeOf(uri) = "" THEN uri ELSE SubSeq(uri, 5, Len(uri))

\* the bucket of a remote URI is empty
EmptyBucket(uri) == AfterScheme(uri) = <<>> \/ AfterScheme(uri)[1] = URI_PATH_SEPARATOR

\* the path of a local URI is absolute
AbsolutePath(uri) == AfterScheme(uri) # <<>> /\ AfterScheme(uri)[1] = URI_PATH_SEPARATOR

\* the last manager call looked up the adapter of a URI
Routing == fs_ret.op \in {"get_fs", "exists", "generate_presigned_url"}

\* the call was routed to an adapter of that kind / was rejected
RoutedTo(kind) ==
  /\ fs_ret.adapter # 0
  /\ \E k \in CacheKeys :
       fs_adapters[k].id = fs_ret.adapter /\ fs_adapters[k].kind = kind
Rejected == fs_ret.adapter = 0 /\ fs_ret.exc = "ValueError"

\* C23: a URI with no scheme or with the file scheme is routed to the
\* local adapter, a URI with the scheme s3 or bos and a non-empty bucket to
\* the object-storage adapter, and a URI with the scheme s3 or bos and an
\* empty bucket is rejected
C23_RoutedByScheme ==
  Routing =>
    /\ SchemeOf(fs_ret.uri) \in {"", "file"} => RoutedTo("local")
    /\ (SchemeOf(fs_ret.uri) \in {"s3", "bos"} /\ ~EmptyBucket(fs_ret.uri)) =>
         RoutedTo("s3")
    /\ (SchemeOf(fs_ret.uri) \in {"s3", "bos"} /\ EmptyBucket(fs_ret.uri)) =>
         Rejected

\* C23, amended: a URI with no scheme or with the file scheme is routed to
\* the local adapter when its path is absolute and rejected when it is
\* not; a URI with the scheme s3 or bos is routed to the object-storage
\* adapter when its bucket is not empty and rejected when it is; a URI
\* with any other scheme is rejected
C23_RoutedBySchemeAndPath ==
  Routing =>
    /\ SchemeOf(fs_ret.uri) \in {"", "file"} =>
         IF AbsolutePath(fs_ret.uri) THEN RoutedTo("local") ELSE Rejected
    /\ SchemeOf(fs_ret.uri) \in {"s3", "bos"} =>
         IF EmptyBucket(fs_ret.uri) THEN Rejected ELSE RoutedTo("s3")
    /\ SchemeOf(fs_ret.uri) \notin {"", "file", "s3", "bos"} => Rejected

\* the last call was rejected for an empty bucket, after calls that were
\* routed to the local and to the object-storage adapter
C23_Witness ==
  /\ Routing
  /\ SchemeOf(fs_ret.uri) \in {"s3", "bos"} /\ EmptyBucket(fs_ret.uri)
  /\ Rejected
  /\ \E k \in CacheKeys : fs_adapters[k].kind = "local"
  /\ \E k \in CacheKeys : fs_adapters[k].kind = "s3"

\* the last call asked the local adapter for a signed URL
LocalPresign == fs_ret.op = "generate_presigned_url" /\ RoutedTo("local")

\* C24: generate_presigned_url for a URI that is routed to the local
\* adapter fails with an error of the kind UnsupportedOperation, returns
\* no URL and does not reach the object-storage client
C24_LocalPresignUnsupported ==
  LocalPresign =>
    /\ fs_ret.exc = "UnsupportedOperation"
    /\ fs_ret.client = 0

\* C24, what the code does: the call fails and reaches no client, but the
\* error is the ValueError of _validate_s3_uri
C24_LocalPresignValueError ==
  LocalPresign =>
    /\ fs_ret.exc = "ValueError"
    /\ fs_ret.client = 0

\* ---------------------------------------------------------------------
\* Credential file and auth middleware (auth_client.py, middleware.py,
\* account.py)
\* ---------------------------------------------------------------------
MaxNow == 8

ALLOW_COLUMNS == <<"username", "token", "groups", "name", "created_at", "last_login", "is_active">>
STANDARD_COLUMN_COUNT == 7
USER_LOGIN_VALID_DAYS == 7
IS_ACTIVE_VALID_VALUES == {"0", "1"}

\* ALLOW_COLUMNS.index(column_name), counted from 1
ColumnIndex(column_name) == CHOOSE i \in 1..Len(ALLOW_COLUMNS) : ALLOW_COLUMNS[i] = column_name

\* now.strftime(TIME_FORMAT) and datetime.strptime(s, TIME_FORMAT), the
\* latter -1 when it raises ValueError
strftime(d) == ToString(d)
strptime(s) == IF \E d \in 0..MaxNow : ToString(d) = s THEN CHOOSE d \in 0..MaxNow : ToString(d) = s ELSE -1

\* generate_auth_token(username): the digest of the user name
generate_auth_token(username) == "sha256:" \o username

\* a line of the file is the sequence of its "|"-separated columns; the
\* values of the model hold no "|" and no outer blanks, so the padding the
\* code writes is what strip() takes away again.
\* _parse_user_file_line(line): the columns, <<>> for None
parse_user_file_line(line) == IF Len(line) # STANDARD_COLUMN_COUNT THEN <<>> ELSE line

\* the loop of _find_user_by_token over file_lines: the first line of the
\* token, <<>> for None
RECURSIVE FindFrom(_, _, _)
FindFrom(file_lines, target_token, k) ==
  IF k > Len(file_lines) THEN <<>>
  ELSE LET columns == parse_user_file_line(file_lines[k]) IN
       IF columns # <<>> /\ columns[ColumnIndex("token")] = target_token
       THEN columns
       ELSE FindFrom(file_lines, target_token, k + 1)

\* _find_user_by_token(target_token) on a file: target_columns
find_user_by_token(file, target_token) ==
  IF ~file.exists THEN <<>> ELSE FindFrom(file.lines, target_token, 1)

\* is_user_valid(target_token) when it is awaited, at the time today
is_user_valid(file, target_token, today) ==
  LET target_columns == find_user_by_token(file, target_token) IN
  IF target_columns = <<>> THEN FALSE
  ELSE IF target_columns[ColumnIndex("is_active")] = "0" THEN FALSE
  ELSE LET last_login_time == strptime(target_columns[ColumnIndex("last_login")]) IN
       IF last_login_time = -1 THEN FALSE
       ELSE ~(today > last_login_time + USER_LOGIN_VALID_DAYS)

\* get_user(target_token) when it is awaited: the user's columns, <<>> for
\* None
get_user(file, target_token) == find_user_by_token(file, target_token)

\* the line add_or_update_user appends
NewLine(username, token, groups, name, current_time, is_active) ==
  <<username, token, groups, name, current_time, current_time, is_active>>

\* step 3.2 of update_user: updated_lines and user_found
RECURSIVE UpdatedFrom(_, _, _, _, _)
UpdatedFrom(file_lines, target_token, column_index, processed_value, k) ==
  IF k > Len(file_lines) THEN <<>>
  ELSE LET columns == parse_user_file_line(file_lines[k]) IN
       <<IF columns # <<>> /\ columns[ColumnIndex("token")] = target_token
         THEN [columns EXCEPT ![column_index] = processed_value]
         ELSE file_lines[k]>>
       \o UpdatedFrom(file_lines, target_token, column_index, processed_value, k + 1)
updated_lines(file_lines, target_token, column_name, processed_value) ==
  UpdatedFrom(file_lines, target_token, ColumnIndex(column_name), processed_value, 1)
user_found(file_lines, target_token) == FindFrom(file_lines, target_token, 1) # <<>>

\* step 2 of update_user: the value passes the column's validation (groups
\* are not updated in the model)
ValueAccepted(column_name, new_value) ==
  IF column_name = "is_active" THEN new_value \in IS_ACTIVE_VALID_VALUES
  ELSE IF column_name \in {"created_at", "last_login"} THEN strptime(new_value) # -1
  ELSE TRUE

\* ------------------------------------------------- the coroutines' steps
\* one task's record replaced
Becomes(t, r) == task' = [task EXCEPT ![t] = r]

\* what the caller of update_user does with its result
AfterUpdate(t, result) ==
  LET me == task[t] IN
  IF me.phase = "upd_name"
  THEN Becomes(t, [me EXCEPT !.phase = "upd_login", !.pc = "u_exists",
                             !.column = "last_login", !.value = me.time,
                             !.out = <<>>, !.found = FALSE])
  ELSE IF me.phase = "upd_login"
  THEN Becomes(t, [me EXCEPT !.phase = "get", !.pc = "f_exists",
                             !.out = <<>>, !.found = FALSE])
  ELSE Becomes(t, [me EXCEPT !.pc = "done", !.out = <<>>,
                             !.ret = IF result THEN "True" ELSE "False"])

\* what the caller of _find_user_by_token does with target_columns
AfterFind(t, target_columns) ==
  LET me == task[t] IN
  IF me.phase = "check"
  THEN IF target_columns # <<>>
       THEN Becomes(t, [me EXCEPT !.phase = "upd_name", !.pc = "u_exists",
                                  !.column = "name", !.value = me.name])
       ELSE IF me.username = "" \/ me.token = "" \/ me.name = ""
       THEN Becomes(t, [me EXCEPT !.pc = "done", !.ret = "None"])
       ELSE Becomes(t, [me EXCEPT !.phase = "append", !.pc = "mkdir"])
  ELSE Becomes(t, [me EXCEPT !.pc = "done",
                             !.ret = IF target_columns = <<>> THEN "None" ELSE "dict"])

\* login: add_or_update_user(generate_auth_token(username), username,
\* DEFAULT_GROUPS, name) starts, up to its first await
login(t, username, name) ==
  /\ task[t].pc = "idle"
  /\ Becomes(t, [NoTask EXCEPT !.op = "login", !.phase = "check", !.pc = "f_exists",
                               !.token = generate_auth_token(username),
                               !.username = username, !.name = name,
                               !.time = strftime(now)])
  /\ UNCHANGED <<cred_file, tmp_file, now>>

\* update_user(target_token, column_name, new_value) starts, up to its
\* first await
update_user(t, target_token, column_name, new_value) ==
  /\ task[t].pc = "idle"
  /\ Becomes(t, IF \A i \in 1..Len(ALLOW_COLUMNS) : ALLOW_COLUMNS[i] # column_name
                THEN [NoTask EXCEPT !.op = "update", !.phase = "update", !.pc = "done",
                                    !.token = target_token, !.column = column_name,
                                    !.value = new_value, !.ret = "False"]
                ELSE [NoTask EXCEPT !.op = "update", !.phase = "update",
                                    !.pc = "u_exists", !.token = target_token,
                                    !.column = column_name, !.value = new_value])
  /\ UNCHANGED <<cred_file, tmp_file, now>>

\* _find_user_by_token: _sync_file_exists
f_exists(t) ==
  /\ task[t].pc = "f_exists"
  /\ IF cred_file.exists
     THEN Becomes(t, [task[t] EXCEPT !.pc = "f_read"])
     ELSE AfterFind(t, <<>>)
  /\ UNCHANGED <<cred_file, tmp_file, now>>

\* _find_user_by_token: _sync_read_file_lines and the search
f_read(t) ==
  /\ task[t].pc = "f_read"
  /\ AfterFind(t, find_user_by_token(cred_file, task[t].token))
  /\ UNCHANGED <<cred_file, tmp_file, now>>

\* add_or_update_user: _sync_mkdir_parent
mkdir_parent(t) ==
  /\ task[t].pc = "mkdir"
  /\ Becomes(t, [task[t] EXCEPT !.pc = "append"])
  /\ UNCHANGED <<cred_file, tmp_file, now>>

\* add_or_update_user: _sync_append_file_line, then get_user starts
append_file_line(t) ==
  /\ task[t].pc = "append"
  /\ cred_file' = [exists |-> TRUE,
                   lines |-> Append(cred_file.lines,
                                    NewLine(task[t].username, task[t].token, "",
                                            task[t].name, task[t].time, "1"))]
  /\ Becomes(t, [task[t] EXCEPT !.phase = "get", !.pc = "f_exists"])
  /\ UNCHANGED <<tmp_file, now>>

\* update_user: _sync_file_exists, then the validation of the value
u_exists(t) ==
  /\ task[t].pc = "u_exists"
  /\ IF cred_file.exists /\ ValueAccepted(task[t].column, task[t].value)
     THEN Becomes(t, [task[t] EXCEPT !.pc = "u_read"])
     ELSE AfterUpdate(t, FALSE)
  /\ UNCHANGED <<cred_file, tmp_file, now>>

\* update_user 3.1, 3.2: _sync_read_file_lines and the loop over the lines
u_read(t) ==
  /\ task[t].pc = "u_read"
  /\ Becomes(t, [task[t] EXCEPT
                   !.pc = "u_write",
                   !.out = updated_lines(cred_file.lines, task[t].token,
                                         task[t].column, task[t].value),
                   !.found = user_found(cred_file.lines, task[t].token)])
  /\ UNCHANGED <<cred_file, tmp_file, now>>

\* update_user 3.3: _sync_write_file_lines to the temporary file
u_write(t) ==
  /\ task[t].pc = "u_write"
  /\ tmp_file' = [exists |-> TRUE, lines |-> task[t].out]
  /\ Becomes(t, [task[t] EXCEPT !.pc = IF task[t].found THEN "u_move" ELSE "u_remove"])
  /\ UNCHANGED <<cred_file, now>>

\* update_user 3.4, user found: _sync_move_file; shutil.move raises when
\* the temporary file is gone
u_move(t) ==
  /\ task[t].pc = "u_move"
  /\ IF tmp_file.exists
     THEN /\ cred_file' = tmp_file
          /\ tmp_file' = NoFile
          /\ AfterUpdate(t, TRUE)
     ELSE /\ Becomes(t, [task[t] EXCEPT !.pc = "u_cleanup"])
          /\ UNCHANGED <<cred_file, tmp_file>>
  /\ UNCHANGED now

\* update_user 3.4, user not found, and the except branch:
\* _sync_remove_file, return False
u_remove(t) ==
  /\ task[t].pc \in {"u_remove", "u_cleanup"}
  /\ tmp_file' = NoFile
  /\ AfterUpdate(t, FALSE)
  /\ UNCHANGED <<cred_file, now>>

\* the time of validity of a login passes
tick ==
  /\ now + USER_LOGIN_VALID_DAYS + 1 <= MaxNow
  /\ now' = now + USER_LOGIN_VALID_DAYS + 1
  /\ UNCHANGED <<cred_file, tmp_file, task>>

\* ------------------------------------------------------- auth_middleware
PUBLIC_PATHS == {<<"/health">>, <<"/docs">>, <<"/redoc">>, <<"/openapi.json">>}
PUBLIC_PATH_PREFIXES == {<<"/api/v1/openapi">>, <<"/api/v1/test">>}

\* the path is served without a token
IsPublic(path) ==
  \/ path \in PUBLIC_PATHS
  \/ \E prefix \in PUBLIC_PATH_PREFIXES : startswith(path, prefix)

\* extract_token(request): the token, "None" for None; a header is
\* <<>> when absent, otherwise its pieces
extract_token(auth_header) ==
  IF startswith(auth_header, <<"Bearer ">>)
  THEN (IF Len(auth_header) = 1 \/ auth_header[2] = " " THEN "" ELSE auth_header[2])
  ELSE "None"

\* bool(v) of a value the middleware tests
truth(v) == v \notin {"None", "False", ""}

\* is_user_valid(token) and get_user(token) as the middleware calls them,
\* without await: the call returns the coroutine object
CalledWithoutAwait == "coroutine"

\* auth_middleware(request, call_next), the request being task t's
auth_middleware(t, path, auth_header) ==
  LET token == extract_token(auth_header)
      valid == CalledWithoutAwait
      user_info == CalledWithoutAwait
      me == [NoTask EXCEPT !.op = "request", !.phase = "request", !.pc = "done",
                           !.path = path, !.header = auth_header] IN
  /\ task[t].pc = "idle"
  /\ Becomes(t,
       IF IsPublic(path)
       THEN [me EXCEPT !.status = 200, !.called = TRUE]
       ELSE IF ~truth(token) \/ ~truth(valid)
       THEN [me EXCEPT !.status = 401]
       ELSE IF truth(user_info)
       THEN \* user_info.get("name"): a coroutine has no attribute get
            [me EXCEPT !.status = 500, !.exc = "AttributeError"]
       ELSE [me EXCEPT !.status = 401])
  /\ UNCHANGED <<cred_file, tmp_file, now>>

\* ----------------------------------------------------------- SpecAuth
Usernames == {"a", "b"}
Names == {"n1", ""}
UpdateArgs == {<<"name", "n3">>, <<"is_active", "0">>, <<"is_active", "2">>, <<"nickname", "n3">>}
UpdateTokens == {generate_auth_token("a"), "unknown"}
AuthPaths == {<<"/health">>, <<"/api/v1/test", "ing">>, <<"/api/v1/sql", "/sql_query">>}
AuthHeaders == {<<>>, <<"Bearer ", " ">>, <<"Bearer ", "unknown">>, <<"Bearer ", generate_auth_token("a")>>}

\* the files the service starts with
HeaderLine == <<"# username", "token">>
UserLine(username, is_active) ==
  NewLine(username, generate_auth_token(username), "", "n0", strftime(0), is_active)
AuthFiles ==
  { NoFile,
    [exists |-> TRUE, lines |-> <<HeaderLine, UserLine("a", "1")>>],
    [exists |-> TRUE, lines |-> <<UserLine("a", "0")>>] }

InitAuth ==
  /\ RwIdle /\ ExInit /\ FsInit /\ SerIdle
  /\ cred_file \in AuthFiles
  /\ tmp_file = NoFile
  /\ now = 0
  /\ task = [t \in Tasks |-> NoTask]

AuthFrame == UNCHANGED <<rwVars, keep_blank, exVars, fsVars, serVars>>

NextAuth ==
  \/ \E t \in Tasks, username \in Usernames, name \in Names : login(t, username, name) /\ AuthFrame
  \/ \E t \in Tasks, target_token \in UpdateTokens, a \in UpdateArgs : update_user(t, target_token, a[1], a[2]) /\ AuthFrame
  \/ \E t \in Tasks : f_exists(t) /\ AuthFrame
  \/ \E t \in Tasks : f_read(t) /\ AuthFrame
  \/ \E t \in Tasks : mkdir_parent(t) /\ AuthFrame
  \/ \E t \in Tasks : append_file_line(t) /\ AuthFrame
  \/ \E t \in Tasks : u_exists(t) /\ AuthFrame
  \/ \E t \in Tasks : u_read(t) /\ AuthFrame
  \/ \E t \in Tasks : u_write(t) /\ AuthFrame
  \/ \E t \in Tasks : u_move(t) /\ AuthFrame
  \/ \E t \in Tasks : u_remove(t) /\ AuthFrame
  \/ tick /\ AuthFrame
  \/ \E t \in Tasks, path \in AuthPaths, auth_header \in AuthHeaders : auth_middleware(t, path, auth_header) /\ AuthFrame

SpecAuth == InitAuth /\ [][NextAuth]_vars

\* ---------------------------------------------------------------------
\* C25: requests without a valid token
\* ---------------------------------------------------------------------

\* this step answers the request of task t
Answered(t) == task[t].pc = "idle" /\ task'[t].op = "request"

\* the request has no bearer token, or its token is not that of a user who
\* is known, active and logged in within the last seven days
WithoutValidToken(t) ==
  LET token == extract_token(task'[t].header) IN
  \/ ~truth(token)
  \/ ~is_user_valid(cred_file, token, now)

\* C25: a request for a path that is not public, with no bearer token or
\* with the token of a user who is unknown, inactive or last logged in more
\* than seven days ago, is answered 401 and its handler is not invoked
C25_RejectedWith401 ==
  [][\A t \in Tasks :
       (Answered(t) /\ ~IsPublic(task'[t].path) /\ WithoutValidToken(t)) =>
         (task'[t].status = 401 /\ ~task'[t].called)]_vars

\* ---------------------------------------------------------------------
\* C26: one record per token
\* ---------------------------------------------------------------------

\* the lines of the file that are records of the token
RecordsOf(token) ==
  {k \in 1..Len(cred_file.lines) :
     LET columns == parse_user_file_line(cred_file.lines[k]) IN
     columns # <<>> /\ columns[ColumnIndex("token")] = token}

\* C26: whatever the interleaving of concurrent logins, the credential
\* file holds at most one record per token
C26_OneRecordPerToken ==
  \A username \in Usernames : Cardinality(RecordsOf(generate_auth_token(username))) <= 1

\* ---------------------------------------------------------------------
\* C27: update_user under interleaving
\* ---------------------------------------------------------------------

\* the update_user call of task t has returned True
Updated(t) == task[t].op = "update" /\ task[t].pc = "done" /\ task[t].ret = "True"

\* task t2 writes the column that the update of task t wrote
Overwrites(t2, t) ==
  /\ t2 # t
  /\ task[t2].token = task[t].token
  /\ \/ task[t2].op = "update" /\ task[t2].column = task[t].column
     \/ task[t2].op = "login" /\ task[t].column \in {"name", "last_login"}

\* an update that returned True and that nobody overwrote is in the file
NoLostUpdate ==
  \A t \in Tasks :
    (Updated(t) /\ ~\E t2 \in Tasks : Overwrites(t2, t)) =>
      \A k \in RecordsOf(task[t].token) :
        cred_file.lines[k][ColumnIndex(task[t].column)] = task[t].value

\* the only step of an update_user call that changes the file is the one
\* after which it returns True
FalseLeavesFile ==
  \A t \in Tasks :
    (task[t].op = "update" /\ task'[t] # task[t] /\ cred_file' # cred_file) =>
      task'[t].ret = "True"

\* C27: update_user is atomic under interleaving, so that no update that
\* returned True is lost, and a call that returns False leaves the
\* credential file as it was
C27_UpdateAtomic == []NoLostUpdate /\ [][FalseLeavesFile]_vars

\* ---------------------------------------------------------------------
\* C28, C29: what doris_data_2_json gives back and what it leaves
\* ---------------------------------------------------------------------

\* C28: for every input the call returns a list and raises nothing
C28_ReturnsList == ser_pc = "done" => SerReturned

\* C29: after the call has returned, the rows that were passed, and the
\* lists they hold, are what they were before the call
C29_InputUnchanged == SerReturned => raw_after = raw_data

\* a call that returned rows it had decoded or signed, each one different
\* from the row it was made from
C29_Witness ==
  /\ SerReturned
  /\ Len(raw_data) >= 2 /\ Len(processed_data) = Len(raw_data)
  /\ \A i \in 1..Len(raw_data) : processed_data[i] # raw_data[i]
  /\ \E i \in 1..Len(raw_data) : \E x \in FieldSet :
       In(x, medium_fields) /\ processed_data[i].f[x] # raw_data[i].f[x]
  /\ raw_after = raw_data

\* ---------------------------------------------------------------------
\* C30: add_limit_safe on its own output
\* ---------------------------------------------------------------------

\* C30: add_limit_safe applied to the str it returned, with the same limit,
\* max_limit and allow_multi_stmt, returns that str again
C30_Idempotent ==
  ret_again.done => (ret_again.exc = "None" /\ ret_again.text = ret)

====
